---- MODULE Spec2Model ----
(***************************************************************************)
(* Model of the tool-calling conversation loop of Effective.Agents:        *)
(*   ToolCallingService.process_query  (basic-llm-call/src/core/           *)
(*   function_calling.py) with DefaultToolExecutor.execute_tool            *)
(*   (basic-llm-call/src/tools/executor.py).                               *)
(*                                                                         *)
(* JSON text is modelled as a sequence of tokens, a Python dict as the     *)
(* sequence of its <<key, value>> pairs in insertion order, Python None as *)
(* the value None.  The remote completion API and the tool handlers are    *)
(* the environment: every reply the API may give is drawn from a small set.*)
(*                                                                         *)
(* A second specification, EntrySpec, models the other entry points of the *)
(* repository, one call of one of them per run: create_default_service     *)
(* (AzureOpenAIClient.__init__), llm_call_with_retry (workflow-patterns/   *)
(* util.py, with the retry policy of its tenacity decorator) and           *)
(* call_azure_openai_with_structured_output (basic-llm-call/src/core/      *)
(* structured_output.py) and multi_step_workflow (workflow-patterns/       *)
(* multi_step_workflow.py).                                                *)
(*                                                                         *)
(* LegacySpec runs the legacy call_azure_openai_with_tools (basic-llm-call/*)
(* function_calling.py) on the replies of a finished process_query.        *)
(* ConcurrentSpec interleaves the steps of several invocations of          *)
(* process_query on shared services.                                       *)
(***************************************************************************)
EXTENDS Integers, Sequences, FiniteSets, TLC

VARIABLES
    pc,                  \* position of process_query: idle, loop, dispatch, returned, raised
    conversation,        \* local list conversation
    function_calls,      \* local list function_calls
    call_count,          \* local counter call_count
    message,             \* the reply message of the latest completion response
    tool_calls_list,     \* message.tool_calls of the turn being dispatched
    next_tool,           \* index in tool_calls_list of the next request of the for loop
    result,              \* the dict returned by process_query
    error,               \* the exception re-raised by process_query
    requests,            \* every call of client.create_chat_completion, in order
    max_function_calls,  \* self.max_function_calls
    tools,               \* self.tool_provider.get_available_tools()
    parallel_tool_calls, \* argument parallel_tool_calls
    remote,              \* behaviour of the remote model in this run
    invocations,         \* every call of a registered handler, in order
    replies,             \* what the remote API answered to each request, in order
    entry,               \* the entry point that is called in this run
    at,                  \* position of that call: idle, retrying, returned, raised
    api_key,             \* argument api_key
    api_base,            \* argument api_base
    environ,             \* os.environ: the credentials found in the environment
    prompt,              \* argument prompt of llm_call
    output_schema,       \* argument output_schema of the structured-output call
    TENACITY_AVAILABLE,  \* whether the import of tenacity succeeded
    attempt_number,      \* retry_state.attempt_number of the retry wrapper
    sleeps,              \* the waits the retry wrapper has inserted, in order
    wire,                \* every request sent to the remote API, in order; for
                         \* multi_step_workflow every call of llm_call_with_retry
    finished,            \* what the call returned or raised
    results,             \* local dict results of multi_step_workflow
    runs,                \* the locals of each of several invocations of process_query
    services,            \* the ToolCallingService objects those invocations are called on
    legacy               \* the locals of a call of the legacy call_azure_openai_with_tools

\* the state of process_query
queryVars == <<pc, conversation, function_calls, call_count, message, tool_calls_list,
               next_tool, result, error, requests, max_function_calls, tools,
               parallel_tool_calls, remote, invocations, replies>>

\* the state of the other entry points
entryVars == <<entry, at, api_key, api_base, environ, prompt, output_schema,
               TENACITY_AVAILABLE, attempt_number, sleeps, wire, finished, results>>

\* the state of the runs that are set side by side
runVars == <<runs, services, legacy>>

vars == <<queryVars, entryVars, runVars>>

-----------------------------------------------------------------------------
(* Bounds of the model *)

\* largest ceiling explored with an unconstrained remote model
MaxCeiling == 2

\* most tool-call requests the remote model puts in one reply
MaxTurn == 2

\* most items in a document the remote model writes
MaxItems == 1

\* invocations of process_query that run side by side
MaxRuns == 2

(* Program constants *)

DefaultMaxFunctionCalls == 5

DefaultTemperatureTenths == 7

DefaultMaxTokens == 1000

\* stop_after_attempt(5)
MaxAttempts == 5

\* wait_exponential(multiplier=1, min=2, max=60)
WaitMultiplier == 1

WaitMin == 2

WaitMax == 60

\* confidence: ge=0.0, le=1.0, in tenths
ConfidenceMinTenths == 0

ConfidenceMaxTenths == 10

-----------------------------------------------------------------------------
(* Values *)

None == "<None>"

NoMessage == [role |-> None]

NoResult == [returned |-> FALSE]

Query == "What's the weather like in London today?"

\* the names of AVAILABLE_TOOLS, in order
AVAILABLE_TOOLS == <<"get_weather", "check_calendar", "set_reminder", "get_datetime">>

\* the keys of FUNCTION_REGISTRY
FUNCTION_REGISTRY == {"get_weather", "check_calendar", "set_reminder", "get_datetime"}

\* tool names the remote model asks for: one registered, one not
ToolNames == {"get_weather", "get_stock_price"}

\* argument payloads the remote model sends, as JSON token sequences:
\* a well-formed call, an empty object, and a truncated document
ArgsLondon == <<"{", "location", ":", "London", ",", "unit", ":", "fahrenheit", "}">>

ArgsEmpty == <<"{", "}">>

ArgsTruncated == <<"{", "location", ":">>

RawArguments == {ArgsLondon, ArgsEmpty, ArgsTruncated}

\* message.content of a reply: absent, empty, or a text
ReplyContents == {None, "", "It is rainy in London."}

Punctuation == {"{", "}", ":", ","}

-----------------------------------------------------------------------------
(* Python helpers *)

Max(a, b) == IF a >= b THEN a ELSE b

Min(a, b) == IF a <= b THEN a ELSE b

\* bool(x) of a string or None
Truthy(x) == x # None /\ x # ""

\* x or ""
OrEmpty(x) == IF x = None \/ x = "" THEN "" ELSE x

\* d[key] of a dict given as a sequence of pairs
HasKey(d, key) == \E i \in 1..Len(d) : d[i][1] = key

Lookup(d, key) == d[CHOOSE i \in 1..Len(d) : d[i][1] = key][2]

Keys(d) == {d[i][1] : i \in 1..Len(d)}

\* d[key] = value on a dict: an existing key keeps its position
SetItem(d, key, value) ==
    IF HasKey(d, key)
    THEN [i \in 1..Len(d) |-> IF d[i][1] = key THEN <<key, value>> ELSE d[i]]
    ELSE Append(d, <<key, value>>)

-----------------------------------------------------------------------------
(* json.loads / json.dumps on flat objects with string members *)

ParseError == [ok |-> FALSE, value |-> <<>>]

IsText(tok) == tok \notin Punctuation

RECURSIVE ParseMembers(_, _, _)
\* the members of an object from token i on: key ":" value, then "," or the closing "}"
ParseMembers(toks, i, acc) ==
    IF i + 3 > Len(toks) THEN ParseError
    ELSE IF ~(IsText(toks[i]) /\ toks[i + 1] = ":" /\ IsText(toks[i + 2])) THEN ParseError
    ELSE IF toks[i + 3] = "}"
         THEN IF i + 3 = Len(toks)
              THEN [ok |-> TRUE, value |-> SetItem(acc, toks[i], toks[i + 2])]
              ELSE ParseError
    ELSE IF toks[i + 3] = ","
         THEN ParseMembers(toks, i + 4, SetItem(acc, toks[i], toks[i + 2]))
    ELSE ParseError

\* json.loads(text): [ok, value]; ok = FALSE stands for json.JSONDecodeError
JsonLoads(toks) ==
    IF Len(toks) < 2 \/ toks[1] # "{" THEN ParseError
    ELSE IF toks = <<"{", "}">> THEN [ok |-> TRUE, value |-> <<>>]
    ELSE ParseMembers(toks, 2, <<>>)

RECURSIVE DumpMembers(_)
DumpMembers(d) ==
    IF d = <<>> THEN <<>>
    ELSE <<d[1][1], ":", d[1][2]>>
         \o (IF Len(d) > 1 THEN <<",">> \o DumpMembers(Tail(d)) ELSE <<>>)

\* json.dumps(d)
JsonDumps(d) == <<"{">> \o DumpMembers(d) \o <<"}">>

-----------------------------------------------------------------------------
(* Tool implementations *)

\* get_weather(location, unit="celsius"): the mock weather table
get_weather(location, unit) ==
    LET celsius == unit = "celsius"
        row == CASE location = "London"   -> <<IF celsius THEN "15" ELSE "59", "Rainy">>
                 [] location = "Tokyo"    -> <<IF celsius THEN "20" ELSE "68", "Clear">>
                 [] location = "New York" -> <<IF celsius THEN "22" ELSE "72", "Partly Cloudy">>
                 [] OTHER                 -> <<IF celsius THEN "25" ELSE "77", "Sunny">>
    IN  << <<"location", location>>, <<"temperature", row[1]>>, <<"unit", unit>>,
           <<"condition", row[2]>>, <<"humidity", "65">>, <<"wind_speed", "10">>,
           <<"updated_at", "now">> >>

\* function_to_call(**function_args) for the registered tool the remote model asks
\* for: binding the keyword arguments fails with TypeError on a missing required
\* parameter or an unexpected keyword
CallFunction(function_name, function_args) ==
    CASE function_name = "get_weather" ->
        IF HasKey(function_args, "location") /\ Keys(function_args) \subseteq {"location", "unit"}
        THEN [raised |-> FALSE,
              value  |-> get_weather(Lookup(function_args, "location"),
                                     IF HasKey(function_args, "unit")
                                     THEN Lookup(function_args, "unit") ELSE "celsius")]
        ELSE [raised |-> TRUE, value |-> <<>>]

-----------------------------------------------------------------------------
(* DefaultToolExecutor.execute_tool *)

\* a not-implemented payload without the "Function " prefix
NotImplementedResponseBare(function_name) ==
    << <<"error", function_name \o " not implemented">> >>

\* the payload synthesized for a name that is not in the registry
NotImplementedResponse(function_name) ==
    << <<"error", "Function " \o function_name \o " not implemented">> >>

\* the function-call record of the returned pair
ToolCallRecord(function_name, function_args, function_response) ==
    [function_name     |-> function_name,
     function_args     |-> function_args,
     function_response |-> function_response]

\* a tool message that is correlated by the tool name instead of the request id
ToolMessageByName(tool_call, function_name, function_response) ==
    [role         |-> "tool",
     tool_call_id |-> function_name,
     name         |-> function_name,
     content      |-> JsonDumps(function_response)]

\* a tool message whose content is the payload itself, not its serialization
ToolMessageUnserialized(tool_call, function_name, function_response) ==
    [role         |-> "tool",
     tool_call_id |-> tool_call.id,
     name         |-> function_name,
     content      |-> function_response]

\* the conversation message of the returned pair
ToolMessage(tool_call, function_name, function_response) ==
    [role         |-> "tool",
     tool_call_id |-> tool_call.id,
     name         |-> function_name,
     content      |-> JsonDumps(function_response)]

\* an exception that leaves execute_tool before any handler is called
Raise(exc) == [raised |-> TRUE, error |-> exc, invoked |-> <<>>]

\* the call function_to_call(**function_args)
Invocation(function_name, function_args) ==
    [function_name |-> function_name, function_args |-> function_args]

\* an exception raised by the call of the handler
RaiseFrom(exc, function_name, function_args) ==
    [raised |-> TRUE, error |-> exc, invoked |-> <<Invocation(function_name, function_args)>>]

\* an executor that raises for a name that is not in the registry
ExecuteToolStrict(tool_call) ==
    LET function_name == tool_call.function.name
        parsed        == JsonLoads(tool_call.function.arguments)
    IN  IF ~parsed.ok THEN Raise("JSONDecodeError")
        ELSE IF function_name \in FUNCTION_REGISTRY
        THEN LET call == CallFunction(function_name, parsed.value)
             IN  IF call.raised THEN RaiseFrom("TypeError", function_name, parsed.value)
                 ELSE [raised  |-> FALSE,
                       error   |-> "none",
                       invoked |-> <<Invocation(function_name, parsed.value)>>,
                       record  |-> ToolCallRecord(function_name, parsed.value, call.value),
                       message |-> ToolMessage(tool_call, function_name, call.value)]
        ELSE Raise("KeyError")

\* an executor that turns a parse failure into an error payload of that one request
ExecuteToolLenient(tool_call) ==
    LET function_name == tool_call.function.name
        parsed        == JsonLoads(tool_call.function.arguments)
        bad_arguments == << <<"error", "invalid arguments">> >>
    IN  IF ~parsed.ok
        THEN [raised  |-> FALSE,
              error   |-> "none",
              invoked |-> <<>>,
              record  |-> ToolCallRecord(function_name, <<>>, bad_arguments),
              message |-> ToolMessage(tool_call, function_name, bad_arguments)]
        ELSE IF function_name \in FUNCTION_REGISTRY
        THEN LET call == CallFunction(function_name, parsed.value)
             IN  IF call.raised THEN RaiseFrom("TypeError", function_name, parsed.value)
                 ELSE [raised  |-> FALSE,
                       error   |-> "none",
                       invoked |-> <<Invocation(function_name, parsed.value)>>,
                       record  |-> ToolCallRecord(function_name, parsed.value, call.value),
                       message |-> ToolMessage(tool_call, function_name, call.value)]
        ELSE [raised  |-> FALSE,
              error   |-> "none",
              invoked |-> <<>>,
              record  |-> ToolCallRecord(function_name, parsed.value,
                                         NotImplementedResponse(function_name)),
              message |-> ToolMessage(tool_call, function_name,
                                      NotImplementedResponse(function_name))]

\* an executor that catches the failure of a handler and answers with an error payload
ExecuteToolCatching(tool_call) ==
    LET function_name == tool_call.function.name
        parsed        == JsonLoads(tool_call.function.arguments)
        handler_error == << <<"error", "handler failed">> >>
    IN  IF ~parsed.ok THEN Raise("JSONDecodeError")
        ELSE IF function_name \in FUNCTION_REGISTRY
        THEN LET call == CallFunction(function_name, parsed.value)
             IN  IF call.raised
                 THEN [raised  |-> FALSE,
                       error   |-> "none",
                       invoked |-> <<Invocation(function_name, parsed.value)>>,
                       record  |-> ToolCallRecord(function_name, parsed.value, handler_error),
                       message |-> ToolMessage(tool_call, function_name, handler_error)]
                 ELSE [raised  |-> FALSE,
                       error   |-> "none",
                       invoked |-> <<Invocation(function_name, parsed.value)>>,
                       record  |-> ToolCallRecord(function_name, parsed.value, call.value),
                       message |-> ToolMessage(tool_call, function_name, call.value)]
        ELSE [raised  |-> FALSE,
              error   |-> "none",
              invoked |-> <<>>,
              record  |-> ToolCallRecord(function_name, parsed.value,
                                         NotImplementedResponse(function_name)),
              message |-> ToolMessage(tool_call, function_name,
                                      NotImplementedResponse(function_name))]

\* an executor that consults the registry before it parses the arguments
ExecuteToolLookupFirst(tool_call) ==
    LET function_name == tool_call.function.name
        parsed        == JsonLoads(tool_call.function.arguments)
    IN  IF function_name \notin FUNCTION_REGISTRY
        THEN [raised  |-> FALSE,
              error   |-> "none",
              invoked |-> <<>>,
              record  |-> ToolCallRecord(function_name, <<>>,
                                         NotImplementedResponse(function_name)),
              message |-> ToolMessage(tool_call, function_name,
                                      NotImplementedResponse(function_name))]
        ELSE IF ~parsed.ok THEN Raise("JSONDecodeError")
        ELSE LET call == CallFunction(function_name, parsed.value)
             IN  IF call.raised THEN RaiseFrom("TypeError", function_name, parsed.value)
                 ELSE [raised  |-> FALSE,
                       error   |-> "none",
                       invoked |-> <<Invocation(function_name, parsed.value)>>,
                       record  |-> ToolCallRecord(function_name, parsed.value, call.value),
                       message |-> ToolMessage(tool_call, function_name, call.value)]

\* execute_tool(tool_call): either raises, or returns (record, message)
ExecuteTool(tool_call) ==
    LET function_name == tool_call.function.name
        parsed        == JsonLoads(tool_call.function.arguments)
        function_args == parsed.value
    IN  IF ~parsed.ok THEN Raise("JSONDecodeError")
        ELSE IF function_name \in FUNCTION_REGISTRY
        THEN LET call == CallFunction(function_name, function_args)
             IN  IF call.raised THEN RaiseFrom("TypeError", function_name, function_args)
                 ELSE [raised  |-> FALSE,
                       error   |-> "none",
                       invoked |-> <<Invocation(function_name, function_args)>>,
                       record  |-> ToolCallRecord(function_name, function_args, call.value),
                       message |-> ToolMessage(tool_call, function_name, call.value)]
        ELSE LET function_response == NotImplementedResponse(function_name)
             IN  [raised  |-> FALSE,
                  error   |-> "none",
                  invoked |-> <<>>,
                  record  |-> ToolCallRecord(function_name, function_args, function_response),
                  message |-> ToolMessage(tool_call, function_name, function_response)]

-----------------------------------------------------------------------------
(* The remote completion API *)

\* the identifier the remote model gives the i-th request of a turn that starts
\* after `before` requests: identifiers are unique within a run
CallId(before, i) == "call_" \o ToString(before + i)

CallTemplates == [name : ToolNames, arguments : RawArguments]

\* a remote model that "always requests exactly one tool call per turn" sends lists
\* of length one; an unconstrained one sends up to MaxTurn requests in a reply
TurnSizes(kind) == IF kind = "one_call" THEN {1} ELSE 1..MaxTurn

ToolCallLists(kind, before) ==
    UNION { { [i \in 1..n |->
                  [id       |-> CallId(before, i),
                   type     |-> "function",
                   function |-> [name |-> t[i].name, arguments |-> t[i].arguments]]]
              : t \in [1..n -> CallTemplates] }
            : n \in TurnSizes(kind) }

\* what stands for the reply of a request that raised
FailedReply == [role |-> "error", content |-> None, tool_calls |-> <<>>]

\* response.choices[0].message of a reply without tool calls
TextReplies ==
    { [role |-> "assistant", content |-> c, tool_calls |-> <<>>] : c \in ReplyContents }

\* response.choices[0].message of a reply that requests tools
ToolReplies(kind, before) ==
    { [role |-> "assistant", content |-> None, tool_calls |-> tcs]
      : tcs \in ToolCallLists(kind, before) }

\* the replies the remote model may give to a request of the loop
LoopReplies(kind, before) ==
    IF kind = "one_call" THEN ToolReplies(kind, before)
    ELSE TextReplies \cup ToolReplies(kind, before)

-----------------------------------------------------------------------------
(* ToolCallingService.process_query *)

\* the ceilings explored: zero and negative ones, the small ones, and the default
Ceilings(kind) ==
    IF kind = "one_call" THEN {DefaultMaxFunctionCalls} ELSE (0 - 1)..MaxCeiling

\* a loop that runs once more when the count equals the ceiling
LoopConditionInclusive(count, ceiling) == count <= ceiling

\* while call_count < self.max_function_calls
LoopCondition(count, ceiling) == count < ceiling

\* a counter that is never advanced
NextCallCountStuck(count, tcs) == count

\* a counter that counts turns instead of requests
NextCallCountPerTurn(count, tcs) == count + 1

\* call_count += len(tool_calls_list)
NextCallCount(count, tcs) == count + Len(tcs)

\* request parameters that name the tool policy even when no tool is offered
LoopParamsAlwaysAuto(conv, available, parallel) ==
    IF available # <<>>
    THEN [messages            |-> conv,
          temperature         |-> DefaultTemperatureTenths,
          max_tokens          |-> DefaultMaxTokens,
          tools               |-> available,
          tool_choice         |-> "auto",
          parallel_tool_calls |-> parallel]
    ELSE [messages    |-> conv,
          temperature |-> DefaultTemperatureTenths,
          max_tokens  |-> DefaultMaxTokens,
          tool_choice |-> "auto"]

\* the parameters of the completion request of the loop
LoopParams(conv, available, parallel) ==
    IF available # <<>>
    THEN [messages            |-> conv,
          temperature         |-> DefaultTemperatureTenths,
          max_tokens          |-> DefaultMaxTokens,
          tools               |-> available,
          tool_choice         |-> "auto",
          parallel_tool_calls |-> parallel]
    ELSE [messages    |-> conv,
          temperature |-> DefaultTemperatureTenths,
          max_tokens  |-> DefaultMaxTokens]

\* a final request that still offers the tools
FinalParamsWithTools(conv) ==
    [messages    |-> conv,
     temperature |-> DefaultTemperatureTenths,
     max_tokens  |-> DefaultMaxTokens,
     tools       |-> AVAILABLE_TOOLS,
     tool_choice |-> "auto"]

\* the parameters of the final completion request
FinalParams(conv) ==
    [messages    |-> conv,
     temperature |-> DefaultTemperatureTenths,
     max_tokens  |-> DefaultMaxTokens]

\* the message first appended for a reply
AssistantMessage(msg) == [role |-> msg.role, content |-> OrEmpty(msg.content)]

\* conversation[-1] of a reply that requests tools
AssistantToolMessage(msg) ==
    [role       |-> msg.role,
     content    |-> OrEmpty(msg.content),
     tool_calls |-> [i \in 1..Len(msg.tool_calls) |->
                       [id       |-> msg.tool_calls[i].id,
                        type     |-> msg.tool_calls[i].type,
                        function |-> [name      |-> msg.tool_calls[i].function.name,
                                      arguments |-> msg.tool_calls[i].function.arguments]]]]

\* a final message that stores an absent content as the empty string
FinalMessageOrEmpty(msg) == [role |-> msg.role, content |-> OrEmpty(msg.content)]

\* the message appended for the final reply
FinalMessage(msg) == [role |-> msg.role, content |-> msg.content]

\* a natural-stop result whose final response is the text stored in the conversation
NaturalResultStoredText(conv, calls, msg) ==
    [conversation   |-> conv,
     function_calls |-> calls,
     final_response |-> OrEmpty(msg.content)]

\* a natural-stop result that reports the ceiling as reached
NaturalResultFlagged(conv, calls, msg) ==
    [conversation      |-> conv,
     function_calls    |-> calls,
     max_calls_reached |-> TRUE,
     final_response    |-> msg.content]

\* the dict returned when a reply requests no tool
NaturalResult(conv, calls, msg) ==
    [conversation   |-> conv,
     function_calls |-> calls,
     final_response |-> msg.content]

\* the dict returned after the final request
CeilingResult(conv, calls, msg) ==
    [conversation      |-> conv,
     function_calls    |-> calls,
     max_calls_reached |-> TRUE,
     final_response    |-> msg.content]

\* the argument that process_query passes to execute_tool
ExecutorArgument(tool_call) ==
    [id       |-> tool_call.id,
     function |-> [name      |-> tool_call.function.name,
                   arguments |-> tool_call.function.arguments]]

\* the entry points of the repository besides process_query
EntryPoints ==
    {"create_default_service", "llm_call_with_retry", "structured_output", "multi_step_workflow"}

\* an argument api_key / api_base: not passed, passed empty, passed
KeyArguments == {None, "", "key"}

BaseArguments == {None, "", "https://endpoint"}

\* os.environ: AZURE_OPENAI_API_KEY and AZURE_OPENAI_ENDPOINT, unset (get gives None) or set
Environments ==
    [AZURE_OPENAI_API_KEY : {None, "env-key"}, AZURE_OPENAI_ENDPOINT : {None, "https://env-endpoint"}]

\* the argument prompt of llm_call: a string or a list of messages
Prompts ==
    { [type |-> "str",  value |-> Query],
      [type |-> "list", value |-> <<[role |-> "user", content |-> Query]>>] }

\* the argument output_schema: the pydantic class StructuredResponse or a bare dict
StructuredResponseSchema == [typed |-> TRUE, name |-> "StructuredResponse"]

DictSchema == [typed |-> FALSE, name |-> "CustomSchema"]

NoOutcome == [status |-> "none", value |-> None, error |-> "none", cause |-> "none"]

\* the entry-point state of a run in which process_query is the call under study
EntryUnused ==
    /\ entry = "process_query"
    /\ at = "idle"
    /\ api_key = "key"
    /\ api_base = "https://endpoint"
    /\ environ = [AZURE_OPENAI_API_KEY |-> None, AZURE_OPENAI_ENDPOINT |-> None]
    /\ prompt = [type |-> "str", value |-> Query]
    /\ output_schema = DictSchema
    /\ TENACITY_AVAILABLE = TRUE
    /\ attempt_number = 1
    /\ sleeps = <<>>
    /\ wire = <<>>
    /\ finished = NoOutcome
    /\ results = <<>>

\* the state of the runs set side by side, in a run that has none
RunsUnused ==
    /\ runs = <<>>
    /\ services = <<>>
    /\ legacy = [pc |-> "idle"]

Init ==
    /\ pc = "idle"
    /\ conversation = <<>>
    /\ function_calls = <<>>
    /\ call_count = 0
    /\ message = NoMessage
    /\ tool_calls_list = <<>>
    /\ next_tool = 1
    /\ result = NoResult
    /\ error = "none"
    /\ requests = <<>>
    /\ remote \in {"free", "one_call"}
    /\ max_function_calls \in Ceilings(remote)
    /\ tools \in (IF remote = "one_call" THEN {AVAILABLE_TOOLS} ELSE {<<>>, AVAILABLE_TOOLS})
    /\ parallel_tool_calls \in BOOLEAN
    /\ invocations = <<>>
    /\ replies = <<>>
    /\ EntryUnused
    /\ RunsUnused

\* process_query is called: the conversation is seeded with the query
Start ==
    /\ pc = "idle"
    /\ pc' = "loop"
    /\ conversation' = Append(conversation, [role |-> "user", content |-> Query])
    /\ call_count' = 0
    /\ UNCHANGED <<function_calls, message, tool_calls_list, next_tool, result, error,
                   requests, max_function_calls, tools, parallel_tool_calls, remote>>
    /\ UNCHANGED <<invocations, replies>>
    /\ UNCHANGED <<entryVars, runVars>>

\* one iteration of the while loop up to the for loop: the request, the reply
\* appended, and either the counter and the tool-call details or the return
LoopIteration(reply) ==
    /\ pc = "loop"
    /\ LoopCondition(call_count, max_function_calls)
    /\ requests' = Append(requests,
                          [site   |-> "loop",
                           params |-> LoopParams(conversation, tools, parallel_tool_calls)])
    /\ message' = reply
    /\ IF reply.tool_calls # <<>>
       THEN /\ call_count' = NextCallCount(call_count, reply.tool_calls)
            /\ conversation' = Append(conversation, AssistantToolMessage(reply))
            /\ tool_calls_list' = reply.tool_calls
            /\ next_tool' = 1
            /\ pc' = "dispatch"
            /\ UNCHANGED result
       ELSE /\ conversation' = Append(conversation, AssistantMessage(reply))
            /\ result' = NaturalResult(conversation', function_calls, reply)
            /\ pc' = "returned"
            /\ UNCHANGED <<call_count, tool_calls_list, next_tool>>
    /\ UNCHANGED <<function_calls, error, max_function_calls, tools,
                   parallel_tool_calls, remote>>
    /\ replies' = Append(replies, reply)
    /\ UNCHANGED invocations
    /\ UNCHANGED <<entryVars, runVars>>

LoopRequest ==
    /\ pc = "loop"
    /\ \E reply \in LoopReplies(remote, call_count) : LoopIteration(reply)

\* a for loop that walks tool_calls_list from its end
DispatchToolCallReversed ==
    /\ pc = "dispatch"
    /\ next_tool <= Len(tool_calls_list)
    /\ LET outcome == ExecuteTool(ExecutorArgument(
                          tool_calls_list[Len(tool_calls_list) + 1 - next_tool]))
       IN  /\ invocations' = invocations \o outcome.invoked
           /\ IF outcome.raised
              THEN /\ pc' = "raised"
                   /\ error' = outcome.error
                   /\ UNCHANGED <<conversation, function_calls, next_tool>>
              ELSE /\ function_calls' = Append(function_calls, outcome.record)
                   /\ conversation' = Append(conversation, outcome.message)
                   /\ next_tool' = next_tool + 1
                   /\ pc' = IF next_tool = Len(tool_calls_list) THEN "loop" ELSE "dispatch"
                   /\ UNCHANGED error
    /\ UNCHANGED <<call_count, message, tool_calls_list, result, requests,
                   max_function_calls, tools, parallel_tool_calls, remote>>
    /\ UNCHANGED replies
    /\ UNCHANGED <<entryVars, runVars>>

\* a for loop that stores each tool message over the last message of the conversation
DispatchToolCallOverwriting ==
    /\ pc = "dispatch"
    /\ next_tool <= Len(tool_calls_list)
    /\ LET outcome == ExecuteTool(ExecutorArgument(tool_calls_list[next_tool]))
       IN  /\ invocations' = invocations \o outcome.invoked
           /\ IF outcome.raised
              THEN /\ pc' = "raised"
                   /\ error' = outcome.error
                   /\ UNCHANGED <<conversation, function_calls, next_tool>>
              ELSE /\ function_calls' = Append(function_calls, outcome.record)
                   /\ conversation' = [conversation EXCEPT ![Len(conversation)] = outcome.message]
                   /\ next_tool' = next_tool + 1
                   /\ pc' = IF next_tool = Len(tool_calls_list) THEN "loop" ELSE "dispatch"
                   /\ UNCHANGED error
    /\ UNCHANGED <<call_count, message, tool_calls_list, result, requests,
                   max_function_calls, tools, parallel_tool_calls, remote>>
    /\ UNCHANGED replies
    /\ UNCHANGED <<entryVars, runVars>>

\* one iteration of the for loop over tool_calls_list
DispatchToolCall ==
    /\ pc = "dispatch"
    /\ next_tool <= Len(tool_calls_list)
    /\ LET outcome == ExecuteTool(ExecutorArgument(tool_calls_list[next_tool]))
       IN  /\ invocations' = invocations \o outcome.invoked
           /\ IF outcome.raised
              THEN /\ pc' = "raised"
                   /\ error' = outcome.error
                   /\ UNCHANGED <<conversation, function_calls, next_tool>>
              ELSE /\ function_calls' = Append(function_calls, outcome.record)
                   /\ conversation' = Append(conversation, outcome.message)
                   /\ next_tool' = next_tool + 1
                   /\ pc' = IF next_tool = Len(tool_calls_list) THEN "loop" ELSE "dispatch"
                   /\ UNCHANGED error
    /\ UNCHANGED <<call_count, message, tool_calls_list, result, requests,
                   max_function_calls, tools, parallel_tool_calls, remote>>
    /\ UNCHANGED replies
    /\ UNCHANGED <<entryVars, runVars>>

\* the request after the loop, its reply appended and returned
FinalIteration(reply) ==
    /\ pc = "loop"
    /\ ~LoopCondition(call_count, max_function_calls)
    /\ requests' = Append(requests, [site |-> "final", params |-> FinalParams(conversation)])
    /\ message' = reply
    /\ conversation' = Append(conversation, FinalMessage(reply))
    /\ result' = CeilingResult(conversation', function_calls, reply)
    /\ pc' = "returned"
    /\ UNCHANGED <<function_calls, call_count, tool_calls_list, next_tool, error,
                   max_function_calls, tools, parallel_tool_calls, remote>>
    /\ replies' = Append(replies, reply)
    /\ UNCHANGED invocations
    /\ UNCHANGED <<entryVars, runVars>>

FinalRequest ==
    /\ pc = "loop"
    /\ \E reply \in TextReplies : FinalIteration(reply)

\* a failing completion request that is swallowed: the call returns what it has
CompletionFailsPartial ==
    /\ pc = "loop"
    /\ requests' = Append(requests,
                          IF LoopCondition(call_count, max_function_calls)
                          THEN [site   |-> "loop",
                                params |-> LoopParams(conversation, tools, parallel_tool_calls)]
                          ELSE [site |-> "final", params |-> FinalParams(conversation)])
    /\ pc' = "returned"
    /\ error' = "APIError"
    /\ result' = [conversation |-> conversation, function_calls |-> function_calls]
    /\ UNCHANGED <<conversation, function_calls, call_count, message, tool_calls_list,
                   next_tool, max_function_calls, tools, parallel_tool_calls, remote>>
    /\ replies' = Append(replies, FailedReply)
    /\ UNCHANGED invocations
    /\ UNCHANGED <<entryVars, runVars>>

\* client.create_chat_completion raises: the except clause logs and re-raises
CompletionFails ==
    /\ pc = "loop"
    /\ requests' = Append(requests,
                          IF LoopCondition(call_count, max_function_calls)
                          THEN [site   |-> "loop",
                                params |-> LoopParams(conversation, tools, parallel_tool_calls)]
                          ELSE [site |-> "final", params |-> FinalParams(conversation)])
    /\ pc' = "raised"
    /\ error' = "APIError"
    /\ UNCHANGED <<conversation, function_calls, call_count, message, tool_calls_list,
                   next_tool, result, max_function_calls, tools, parallel_tool_calls,
                   remote>>
    /\ replies' = Append(replies, FailedReply)
    /\ UNCHANGED invocations
    /\ UNCHANGED <<entryVars, runVars>>

Next ==
    \/ Start
    \/ CompletionFails
    \/ DispatchToolCall
    \/ FinalRequest
    \/ LoopRequest

Spec == Init /\ [][Next]_vars

-----------------------------------------------------------------------------
(* The legacy call_azure_openai_with_tools, run on the replies of a finished
   process_query *)

\* final parameters that still offer the tools
LegacyFinalParamsWithTools(conv, temperature, max_tokens) ==
    [messages    |-> conv,
     temperature |-> temperature,
     max_tokens  |-> max_tokens,
     tools       |-> AVAILABLE_TOOLS,
     tool_choice |-> "auto"]

\* the parameters of client.chat.completions.create in the loop, the deployment aside
LegacyLoopParams(conv, available_tools, parallel, temperature, max_tokens) ==
    [messages            |-> conv,
     temperature         |-> temperature,
     max_tokens          |-> max_tokens,
     tools               |-> available_tools,
     tool_choice         |-> "auto",
     parallel_tool_calls |-> parallel]

\* the parameters of client.chat.completions.create after the loop
LegacyFinalParams(conv, temperature, max_tokens) ==
    [messages    |-> conv,
     temperature |-> temperature,
     max_tokens  |-> max_tokens]

\* the local state of a call: where it stands, its lists and counter, what it
\* returned or raised, the requests it issued and the replies it has not read
LegacyStart(query, model_replies) ==
    [pc             |-> "loop",
     conversation   |-> <<[role |-> "user", content |-> query]>>,
     function_calls |-> <<>>,
     call_count     |-> 0,
     result         |-> NoResult,
     error          |-> "none",
     requests       |-> <<>>,
     unread         |-> model_replies]

\* for tool_call in message.tool_calls, from the i-th on: the arguments parsed, the
\* handler of a registered name called, the record and the tool message appended
RECURSIVE LegacyDispatch(_, _, _)
LegacyDispatch(local, tool_calls, i) ==
    IF i > Len(tool_calls) THEN local
    ELSE LET tool_call     == tool_calls[i]
             function_name == tool_call.function.name
             parsed        == JsonLoads(tool_call.function.arguments)
             function_args == parsed.value
             appended(function_response) ==
                 [local EXCEPT
                     !.function_calls = Append(@, [function_name     |-> function_name,
                                                   function_args     |-> function_args,
                                                   function_response |-> function_response]),
                     !.conversation = Append(@, [role         |-> "tool",
                                                 tool_call_id |-> tool_call.id,
                                                 name         |-> function_name,
                                                 content      |-> JsonDumps(function_response)])]
         IN  IF ~parsed.ok
             THEN [local EXCEPT !.pc = "raised", !.error = "JSONDecodeError"]
             ELSE IF function_name \in FUNCTION_REGISTRY
             THEN LET call == CallFunction(function_name, function_args)
                  IN  IF call.raised
                      THEN [local EXCEPT !.pc = "raised", !.error = "TypeError"]
                      ELSE LegacyDispatch(appended(call.value), tool_calls, i + 1)
             ELSE LegacyDispatch(
                      appended(<< <<"error", "Function " \o function_name \o " not implemented">> >>),
                      tool_calls, i + 1)

\* the while loop and the request after it, each request answered by the next
\* unread reply; a call that finds no reply to read stays where it is
RECURSIVE LegacyLoop(_, _, _, _, _, _)
LegacyLoop(local, available_tools, max_calls, parallel, temperature, max_tokens) ==
    IF local.pc # "loop" \/ local.unread = <<>> THEN local
    ELSE LET reply == Head(local.unread)
             read  == [local EXCEPT !.unread = Tail(@)]
         IN  IF local.call_count < max_calls
             THEN LET asked == [read EXCEPT !.requests =
                                   Append(@, [site   |-> "loop",
                                              params |-> LegacyLoopParams(
                                                  local.conversation, available_tools,
                                                  parallel, temperature, max_tokens)])]
                  IN  IF reply = FailedReply
                      THEN [asked EXCEPT !.pc = "raised", !.error = "APIError"]
                      ELSE IF reply.tool_calls # <<>>
                      THEN LET turn == [asked EXCEPT
                                   !.call_count = @ + Len(reply.tool_calls),
                                   !.conversation =
                                       Append(@, [role       |-> reply.role,
                                                  content    |-> OrEmpty(reply.content),
                                                  tool_calls |->
                                                      [k \in 1..Len(reply.tool_calls) |->
                                                          [id       |-> reply.tool_calls[k].id,
                                                           type     |-> reply.tool_calls[k].type,
                                                           function |->
                                                               [name      |-> reply.tool_calls[k].function.name,
                                                                arguments |-> reply.tool_calls[k].function.arguments]]]])]
                           IN  LegacyLoop(LegacyDispatch(turn, reply.tool_calls, 1),
                                          available_tools, max_calls, parallel,
                                          temperature, max_tokens)
                      ELSE LET conv == Append(asked.conversation,
                                              [role    |-> reply.role,
                                               content |-> OrEmpty(reply.content)])
                           IN  [asked EXCEPT
                                   !.pc = "returned",
                                   !.conversation = conv,
                                   !.result = [conversation   |-> conv,
                                               function_calls |-> asked.function_calls,
                                               final_response |-> reply.content]]
             ELSE LET asked == [read EXCEPT !.requests =
                                   Append(@, [site   |-> "final",
                                              params |-> LegacyFinalParams(
                                                  local.conversation, temperature,
                                                  max_tokens)])]
                  IN  IF reply = FailedReply
                      THEN [asked EXCEPT !.pc = "raised", !.error = "APIError"]
                      ELSE LET conv == Append(asked.conversation,
                                              [role    |-> reply.role,
                                               content |-> reply.content])
                           IN  [asked EXCEPT
                                   !.pc = "returned",
                                   !.conversation = conv,
                                   !.result = [conversation      |-> conv,
                                               function_calls    |-> asked.function_calls,
                                               max_calls_reached |-> TRUE,
                                               final_response    |-> reply.content]]

\* call_azure_openai_with_tools with credentials at hand, on the given replies
call_azure_openai_with_tools(query, available_tools, t, max_tokens, max_calls, parallel, model_replies) ==
    LegacyLoop(LegacyStart(query, model_replies), available_tools, max_calls, parallel,
               t, max_tokens)

\* the legacy function is called with the query, tool list, ceiling and parameters of
\* the finished process_query and is given the replies that run received
LegacyCall ==
    /\ pc \in {"returned", "raised"}
    /\ legacy.pc = "idle"
    /\ legacy' = call_azure_openai_with_tools(Query, tools, DefaultTemperatureTenths,
                                              DefaultMaxTokens, max_function_calls,
                                              parallel_tool_calls, replies)
    /\ UNCHANGED <<runs, services>>
    /\ UNCHANGED <<queryVars, entryVars>>

LegacyNext ==
    \/ Next
    \/ LegacyCall

LegacySpec == Init /\ [][LegacyNext]_vars

-----------------------------------------------------------------------------
(* Invocations of process_query side by side.  Each invocation owns its local
   variables; what the invocations share is the services, whose attributes every
   step may read and might write. *)

RunIds == 1..MaxRuns

\* two services built by __init__: one with ceiling 1, one with ceiling 2
Services ==
    <<[max_function_calls |-> 1, tools |-> AVAILABLE_TOOLS],
      [max_function_calls |-> 2, tools |-> AVAILABLE_TOOLS]>>

ServiceIds == DOMAIN Services

\* the frame of a call service.process_query(query, parallel_tool_calls=parallel)
\* before its first statement
NewRun(self, parallel) ==
    [self                |-> self,
     parallel_tool_calls |-> parallel,
     pc                  |-> "idle",
     conversation        |-> <<>>,
     function_calls      |-> <<>>,
     call_count          |-> 0,
     tool_calls_list     |-> <<>>,
     next_tool           |-> 1,
     result              |-> NoResult,
     error               |-> "none",
     requests            |-> <<>>,
     replies             |-> <<>>]

\* what the remote model answers to a request of an invocation: a text, a turn with
\* one request of a registered tool, a turn with a request of an unregistered tool
\* followed by one whose arguments do not parse, or nothing, the request failing
RunReplies(before) ==
    {[role |-> "assistant", content |-> "It is rainy in London.", tool_calls |-> <<>>],
     [role |-> "assistant", content |-> None, tool_calls |->
         <<[id |-> CallId(before, 1), type |-> "function",
            function |-> [name |-> "get_weather", arguments |-> ArgsLondon]]>>],
     [role |-> "assistant", content |-> None, tool_calls |->
         <<[id |-> CallId(before, 1), type |-> "function",
            function |-> [name |-> "get_stock_price", arguments |-> ArgsEmpty]],
           [id |-> CallId(before, 2), type |-> "function",
            function |-> [name |-> "get_weather", arguments |-> ArgsTruncated]]>>],
     FailedReply}

\* a counter kept as the budget left on the service instead of in the invocation
CountedOnService(local, shared, tcs) ==
    [local    |-> local,
     services |-> [shared EXCEPT ![local.self].max_function_calls = @ - Len(tcs)]]

\* call_count += len(tool_calls_list): the counter is a local of the invocation
Counted(local, shared, tcs) ==
    [local    |-> [local EXCEPT !.call_count = NextCallCount(@, tcs)],
     services |-> shared]

\* conversation = [], function_calls = [], the query appended, call_count = 0
StartStep(local, shared) ==
    [local    |-> [local EXCEPT !.pc = "loop",
                                !.conversation = <<[role |-> "user", content |-> Query]>>,
                                !.function_calls = <<>>,
                                !.call_count = 0],
     services |-> shared]

\* the test of the while loop, the request it leads to, and what the invocation does
\* with the reply up to the for loop, the return or the re-raise
RequestStep(local, shared, reply) ==
    LET service == shared[local.self]
    IN  IF LoopCondition(local.call_count, service.max_function_calls)
        THEN LET asked == [local EXCEPT
                             !.requests = Append(@, [site   |-> "loop",
                                                     params |-> LoopParams(
                                                         local.conversation, service.tools,
                                                         local.parallel_tool_calls)]),
                             !.replies = Append(@, reply)]
             IN  IF reply = FailedReply
                 THEN [local    |-> [asked EXCEPT !.pc = "raised", !.error = "APIError"],
                       services |-> shared]
                 ELSE IF reply.tool_calls # <<>>
                 THEN LET counted == Counted(asked, shared, reply.tool_calls)
                      IN  [local    |-> [counted.local EXCEPT
                                            !.conversation = Append(@, AssistantToolMessage(reply)),
                                            !.tool_calls_list = reply.tool_calls,
                                            !.next_tool = 1,
                                            !.pc = "dispatch"],
                           services |-> counted.services]
                 ELSE LET conv == Append(asked.conversation, AssistantMessage(reply))
                      IN  [local    |-> [asked EXCEPT
                                            !.conversation = conv,
                                            !.result = NaturalResult(conv, asked.function_calls,
                                                                     reply),
                                            !.pc = "returned"],
                           services |-> shared]
        ELSE LET asked == [local EXCEPT
                             !.requests = Append(@, [site   |-> "final",
                                                     params |-> FinalParams(local.conversation)]),
                             !.replies = Append(@, reply)]
             IN  IF reply = FailedReply
                 THEN [local    |-> [asked EXCEPT !.pc = "raised", !.error = "APIError"],
                       services |-> shared]
                 ELSE LET conv == Append(asked.conversation, FinalMessage(reply))
                      IN  [local    |-> [asked EXCEPT
                                            !.conversation = conv,
                                            !.result = CeilingResult(conv, asked.function_calls,
                                                                     reply),
                                            !.pc = "returned"],
                           services |-> shared]

\* one iteration of the for loop: execute_tool, the record and the message appended
DispatchStep(local, shared) ==
    LET outcome == ExecuteTool(ExecutorArgument(local.tool_calls_list[local.next_tool]))
    IN  [local    |-> IF outcome.raised
                      THEN [local EXCEPT !.pc = "raised", !.error = outcome.error]
                      ELSE [local EXCEPT
                               !.function_calls = Append(@, outcome.record),
                               !.conversation = Append(@, outcome.message),
                               !.next_tool = @ + 1,
                               !.pc = IF local.next_tool = Len(local.tool_calls_list)
                                      THEN "loop" ELSE "dispatch"],
         services |-> shared]

\* the step of invocation r takes effect: its frame and whatever it wrote to the services
Stepped(r, next) ==
    /\ runs' = [runs EXCEPT ![r] = next.local]
    /\ services' = next.services
    /\ UNCHANGED legacy
    /\ UNCHANGED <<queryVars, entryVars>>

StartRun ==
    \E r \in RunIds :
        /\ runs[r].pc = "idle"
        /\ Stepped(r, StartStep(runs[r], services))

RequestRun ==
    \E r \in RunIds :
        /\ runs[r].pc = "loop"
        /\ \E reply \in RunReplies(runs[r].call_count) :
              Stepped(r, RequestStep(runs[r], services, reply))

DispatchRun ==
    \E r \in RunIds :
        /\ runs[r].pc = "dispatch"
        /\ Stepped(r, DispatchStep(runs[r], services))

\* the invocations are called, each on one of the services, and none has begun
ConcurrentInit ==
    /\ pc = "idle"
    /\ conversation = <<>>
    /\ function_calls = <<>>
    /\ call_count = 0
    /\ message = NoMessage
    /\ tool_calls_list = <<>>
    /\ next_tool = 1
    /\ result = NoResult
    /\ error = "none"
    /\ requests = <<>>
    /\ remote = "free"
    /\ max_function_calls = DefaultMaxFunctionCalls
    /\ tools = AVAILABLE_TOOLS
    /\ parallel_tool_calls = TRUE
    /\ invocations = <<>>
    /\ replies = <<>>
    /\ EntryUnused
    /\ services = Services
    /\ runs \in [RunIds -> {NewRun(self, TRUE) : self \in ServiceIds}]
    /\ legacy = [pc |-> "idle"]

ConcurrentNext ==
    \/ StartRun
    \/ RequestRun
    \/ DispatchRun

ConcurrentSpec == ConcurrentInit /\ [][ConcurrentNext]_vars

-----------------------------------------------------------------------------
(* Credentials and the client *)

\* arg or os.environ.get(name)
OrEnviron(arg, found) == IF Truthy(arg) THEN arg ELSE found

\* a client that only asks for the key
AzureOpenAIClientKeyOnly(key_arg, base_arg, env) ==
    LET key  == OrEnviron(key_arg, env.AZURE_OPENAI_API_KEY)
        base == OrEnviron(base_arg, env.AZURE_OPENAI_ENDPOINT)
    IN  IF ~Truthy(key)
        THEN [raised |-> TRUE, error |-> "ValueError", api_key |-> key, api_base |-> base]
        ELSE [raised |-> FALSE, error |-> "none", api_key |-> key, api_base |-> base]

\* AzureOpenAIClient(api_key, api_base, ...): raises ValueError when the key or the
\* endpoint is missing, before the SDK client is built
AzureOpenAIClient(key_arg, base_arg, env) ==
    LET key  == OrEnviron(key_arg, env.AZURE_OPENAI_API_KEY)
        base == OrEnviron(base_arg, env.AZURE_OPENAI_ENDPOINT)
    IN  IF ~Truthy(key) \/ ~Truthy(base)
        THEN [raised |-> TRUE, error |-> "ValueError", api_key |-> key, api_base |-> base]
        ELSE [raised |-> FALSE, error |-> "none", api_key |-> key, api_base |-> base]

\* the ToolCallingService that create_default_service returns
DefaultService(client) ==
    [client             |-> [api_key |-> client.api_key, api_base |-> client.api_base],
     tools              |-> AVAILABLE_TOOLS,
     function_registry  |-> FUNCTION_REGISTRY,
     max_function_calls |-> DefaultMaxFunctionCalls]

Returned(value) == [status |-> "returned", value |-> value, error |-> "none", cause |-> "none"]

Raised(exc, cause) == [status |-> "raised", value |-> None, error |-> exc, cause |-> cause]

-----------------------------------------------------------------------------
(* llm_call and the retry policy of llm_call_with_retry *)

\* the exception classes of the OpenAI SDK and of Python that a call may raise
Superclass(cls) ==
    CASE cls = "RateLimitError"      -> "APIStatusError"
      [] cls = "AuthenticationError" -> "APIStatusError"
      [] cls = "APIStatusError"      -> "APIError"
      [] cls = "APITimeoutError"     -> "APIConnectionError"
      [] cls = "APIConnectionError"  -> "APIError"
      [] cls = "APIError"            -> "OpenAIError"
      [] OTHER                       -> "Exception"

RECURSIVE IsInstance(_, _)
\* isinstance(e, types) for an exception of class cls
IsInstance(cls, types) ==
    \/ cls \in types
    \/ cls # "Exception" /\ IsInstance(Superclass(cls), types)

\* the failures of client.chat.completions.create: a rate limit, a timeout, an
\* unavailable service (a plain APIError), a rejected key, and a prompt that the SDK
\* cannot encode
RequestFailures ==
    {"RateLimitError", "APITimeoutError", "APIError", "AuthenticationError", "TypeError"}

\* what the remote API does with one request: the request fails, or it is answered
\* with a text or, the content being None, without one
Failure(cls) == [ok |-> FALSE, error |-> cls, is_none |-> TRUE, text |-> <<>>]

Answer(text) == [ok |-> TRUE, error |-> "none", is_none |-> FALSE, text |-> text]

NoContent == [ok |-> TRUE, error |-> "none", is_none |-> TRUE, text |-> <<>>]

RemoteOutcomes ==
    {Answer(<<[t |-> "word", s |-> "It is rainy in London."]>>)}
    \cup {Failure(c) : c \in RequestFailures}

\* the request llm_call sends: a list prompt as it is, a string prompt as one user message
LlmCallRequest(p) ==
    [caller   |-> "llm_call",
     messages |-> IF p.type = "list" THEN p.value
                  ELSE <<[role |-> "user", content |-> p.value]>>,
     stop     |-> None]

\* llm_call(prompt, api_key=..., api_base=...): the exception or the response, and
\* the requests it sent
llm_call(p, key_arg, base_arg, env, remote_outcome) ==
    LET key  == OrEnviron(key_arg, env.AZURE_OPENAI_API_KEY)
        base == OrEnviron(base_arg, env.AZURE_OPENAI_ENDPOINT)
        sent == <<[request |-> LlmCallRequest(p), response |-> remote_outcome]>>
    IN  IF ~Truthy(key) \/ ~Truthy(base)
        THEN [raised |-> TRUE, error |-> "ValueError", value |-> NoContent, sent |-> <<>>]
        ELSE IF remote_outcome.ok
        THEN [raised |-> FALSE, error |-> "none", value |-> remote_outcome, sent |-> sent]
        ELSE [raised |-> TRUE, error |-> remote_outcome.error, value |-> NoContent,
              sent |-> sent]

\* retry_if_exception_type((APIError, RateLimitError, ServiceUnavailableError, Timeout)),
\* ServiceUnavailableError being another name of APIError
RetryTypes == {"APIError", "RateLimitError", "APITimeoutError"}

ShouldRetry(cls) == IsInstance(cls, RetryTypes)

\* an attempt limit that is off by one
stop_after_attempt_late(n) == n > MaxAttempts

\* stop_after_attempt(5): stop when the attempt just made is the fifth
stop_after_attempt(n) == n >= MaxAttempts

RECURSIVE Power(_, _)
Power(base, n) == IF n <= 0 THEN 1 ELSE base * Power(base, n - 1)

\* a backoff whose exponent is the attempt number
wait_exponential_from_two(n) ==
    Max(Max(0, WaitMin), Min(WaitMultiplier * Power(2, n), WaitMax))

\* wait_exponential(multiplier=1, min=2, max=60) after attempt n: the multiplier
\* times 2 ** (n - 1), not above max and not below min
wait_exponential(n) ==
    Max(Max(0, WaitMin), Min(WaitMultiplier * Power(2, n - 1), WaitMax))

-----------------------------------------------------------------------------
(* JSON documents: the text of a reply as its sequence of lexical tokens, a parsed
   value as a pair of its Python type and its content *)

Punct(s) == [t |-> "punct", s |-> s]

StringToken(s) == [t |-> "string", s |-> s]

NumberToken(s) == [t |-> "number", s |-> s]

NullToken == [t |-> "null", s |-> "null"]

\* text that is not JSON, and white space
WordToken(s) == [t |-> "word", s |-> s]

SpaceToken == [t |-> "space", s |-> " "]

Str(s) == [kind |-> "str", v |-> s]

Num(literal) == [kind |-> "number", v |-> literal]

NullValue == [kind |-> "null", v |-> "null"]

List(items) == [kind |-> "list", v |-> items]

Dict(members) == [kind |-> "dict", v |-> members]

RECURSIVE Encode(_)
RECURSIVE EncodeItems(_)
RECURSIVE EncodeMembers(_)
\* the JSON text of a value, as the remote model writes it
Encode(x) ==
    CASE x.kind = "str"    -> <<StringToken(x.v)>>
      [] x.kind = "number" -> <<NumberToken(x.v)>>
      [] x.kind = "null"   -> <<NullToken>>
      [] x.kind = "list"   -> <<Punct("[")>> \o EncodeItems(x.v) \o <<Punct("]")>>
      [] x.kind = "dict"   -> <<Punct("{")>> \o EncodeMembers(x.v) \o <<Punct("}")>>

EncodeItems(items) ==
    IF items = <<>> THEN <<>>
    ELSE Encode(items[1])
         \o (IF Len(items) > 1 THEN <<Punct(",")>> \o EncodeItems(Tail(items)) ELSE <<>>)

EncodeMembers(members) ==
    IF members = <<>> THEN <<>>
    ELSE <<StringToken(members[1][1]), Punct(":")>> \o Encode(members[1][2])
         \o (IF Len(members) > 1 THEN <<Punct(",")>> \o EncodeMembers(Tail(members)) ELSE <<>>)

RECURSIVE StripLeft(_)
StripLeft(text) ==
    IF text # <<>> /\ text[1] = SpaceToken THEN StripLeft(Tail(text)) ELSE text

RECURSIVE StripRight(_)
StripRight(text) ==
    IF text # <<>> /\ text[Len(text)] = SpaceToken
    THEN StripRight(SubSeq(text, 1, Len(text) - 1)) ELSE text

\* text.strip()
Strip(text) == StripRight(StripLeft(text))

NoParse == [ok |-> FALSE, value |-> NullValue, next |-> 0]

Parsed(value, next) == [ok |-> TRUE, value |-> value, next |-> next]

RECURSIVE ParseValue(_, _)
RECURSIVE ParseItems(_, _, _)
RECURSIVE ParsePairs(_, _, _)
\* the JSON value that starts at token i, and the position after it
ParseValue(toks, i) ==
    IF i > Len(toks) THEN NoParse
    ELSE CASE toks[i].t = "string" -> Parsed(Str(toks[i].s), i + 1)
           [] toks[i].t = "number" -> Parsed(Num(toks[i].s), i + 1)
           [] toks[i].t = "null"   -> Parsed(NullValue, i + 1)
           [] toks[i] = Punct("[") ->
                IF i + 1 <= Len(toks) /\ toks[i + 1] = Punct("]")
                THEN Parsed(List(<<>>), i + 2)
                ELSE ParseItems(toks, i + 1, <<>>)
           [] toks[i] = Punct("{") ->
                IF i + 1 <= Len(toks) /\ toks[i + 1] = Punct("}")
                THEN Parsed(Dict(<<>>), i + 2)
                ELSE ParsePairs(toks, i + 1, <<>>)
           [] OTHER -> NoParse

\* the items of a list from token i on, up to the closing bracket
ParseItems(toks, i, acc) ==
    LET item == ParseValue(toks, i)
    IN  IF ~item.ok \/ item.next > Len(toks) THEN NoParse
        ELSE IF toks[item.next] = Punct("]")
        THEN Parsed(List(Append(acc, item.value)), item.next + 1)
        ELSE IF toks[item.next] = Punct(",")
        THEN ParseItems(toks, item.next + 1, Append(acc, item.value))
        ELSE NoParse

\* the members of an object from token i on, up to the closing brace; a key that
\* comes twice keeps its place and takes the later value
ParsePairs(toks, i, acc) ==
    IF i + 1 > Len(toks) \/ toks[i].t # "string" \/ toks[i + 1] # Punct(":") THEN NoParse
    ELSE LET member == ParseValue(toks, i + 2)
         IN  IF ~member.ok \/ member.next > Len(toks) THEN NoParse
             ELSE IF toks[member.next] = Punct("}")
             THEN Parsed(Dict(SetItem(acc, toks[i].s, member.value)), member.next + 1)
             ELSE IF toks[member.next] = Punct(",")
             THEN ParsePairs(toks, member.next + 1, SetItem(acc, toks[i].s, member.value))
             ELSE NoParse

\* json.loads(text) of a reply: ok = FALSE stands for json.JSONDecodeError
JsonLoadsText(toks) ==
    LET top == ParseValue(toks, 1)
    IN  IF top.ok /\ top.next = Len(toks) + 1
        THEN [ok |-> TRUE, value |-> top.value]
        ELSE [ok |-> FALSE, value |-> NullValue]

-----------------------------------------------------------------------------
(* The pydantic models ResponseItem and StructuredResponse *)

\* the number literals and numeric strings of the documents, and their values in tenths
Numerals == {"-0.1", "0.0", "0.5", "0.9", "1", "1.0", "1.5"}

NumberTenths(literal) ==
    CASE literal = "-0.1" -> 0 - 1
      [] literal = "0.0"  -> 0
      [] literal = "0.5"  -> 5
      [] literal = "0.9"  -> 9
      [] literal = "1"    -> 10
      [] literal = "1.0"  -> 10
      [] literal = "1.5"  -> 15

\* what a field of type str accepts
StrInput(x) == x.kind = "str"

\* what a field of type float accepts: a number, or a string that reads as a number
FloatInput(x) == x.kind = "number" \/ (x.kind = "str" /\ x.v \in Numerals)

\* what a field of type List[str] accepts
StrListInput(x) == x.kind = "list" /\ \A i \in 1..Len(x.v) : StrInput(x.v[i])

\* what a field of type Optional[Dict[str, Any]] accepts
OptionalDictInput(x) == x.kind \in {"null", "dict"}

\* a range check that lets values above the maximum pass
ConfidenceInRangeNoMax(tenths) == tenths >= ConfidenceMinTenths

\* ge=0.0, le=1.0
ConfidenceInRange(tenths) == tenths >= ConfidenceMinTenths /\ tenths <= ConfidenceMaxTenths

\* the fields of a ResponseItem that do not validate
ResponseItemErrors(d) ==
    {f \in {"title", "description"} : ~HasKey(d, f) \/ ~StrInput(Lookup(d, f))}
    \cup (IF \/ ~HasKey(d, "confidence")
             \/ ~FloatInput(Lookup(d, "confidence"))
             \/ ~ConfidenceInRange(NumberTenths(Lookup(d, "confidence").v))
          THEN {"confidence"} ELSE {})
    \cup (IF HasKey(d, "tags") /\ ~StrListInput(Lookup(d, "tags")) THEN {"tags"} ELSE {})
    \cup (IF HasKey(d, "metadata") /\ ~OptionalDictInput(Lookup(d, "metadata"))
          THEN {"metadata"} ELSE {})

\* a validation of items that drops the tags
ResponseItemDroppingTags(d) ==
    [model       |-> "ResponseItem",
     title       |-> Lookup(d, "title").v,
     description |-> Lookup(d, "description").v,
     confidence  |-> NumberTenths(Lookup(d, "confidence").v),
     tags        |-> <<>>,
     metadata    |-> IF HasKey(d, "metadata") THEN Lookup(d, "metadata") ELSE NullValue]

\* ResponseItem(**d) for a dict that validates: tags defaults to the empty list,
\* metadata to None; members that are not fields are ignored
ResponseItem(d) ==
    [model       |-> "ResponseItem",
     title       |-> Lookup(d, "title").v,
     description |-> Lookup(d, "description").v,
     confidence  |-> NumberTenths(Lookup(d, "confidence").v),
     tags        |-> IF HasKey(d, "tags")
                     THEN [i \in 1..Len(Lookup(d, "tags").v) |-> Lookup(d, "tags").v[i].v]
                     ELSE <<>>,
     metadata    |-> IF HasKey(d, "metadata") THEN Lookup(d, "metadata") ELSE NullValue]

\* the places of a StructuredResponse that do not validate
StructuredResponseErrors(d) ==
    {f \in {"query", "summary", "timestamp"} : ~HasKey(d, f) \/ ~StrInput(Lookup(d, f))}
    \cup (IF ~HasKey(d, "items") \/ Lookup(d, "items").kind # "list" THEN {"items"}
          ELSE LET items == Lookup(d, "items").v
               IN  UNION { IF items[i].kind # "dict"
                           THEN {"items." \o ToString(i - 1)}
                           ELSE {"items." \o ToString(i - 1) \o "." \o f
                                 : f \in ResponseItemErrors(items[i].v)}
                           : i \in 1..Len(items) })

\* StructuredResponse(**d) for a dict that validates
StructuredResponse(d) ==
    [model     |-> "StructuredResponse",
     query     |-> Lookup(d, "query").v,
     items     |-> [i \in 1..Len(Lookup(d, "items").v) |->
                       ResponseItem(Lookup(d, "items").v[i].v)],
     summary   |-> Lookup(d, "summary").v,
     timestamp |-> Lookup(d, "timestamp").v]

\* isinstance(output_schema, type) and issubclass(output_schema, BaseModel)
IsTypedSchema(schema) == schema.typed

-----------------------------------------------------------------------------
(* Instances of the schema and their serialization *)

\* a Python tuple, a value that metadata: Dict[str, Any] may hold and JSON has no form for
Tuple(items) == [kind |-> "tuple", v |-> items]

\* valid ResponseItem instances: the boundary confidences, tags and metadata at
\* their defaults and set, and a metadata that holds a tuple
InstanceItems ==
    { [model |-> "ResponseItem", title |-> "Umbrella", description |-> "Keeps you dry",
       confidence |-> x[1], tags |-> x[2], metadata |-> x[3]]
      : x \in { <<10, <<>>, NullValue>>,
                <<5, <<"rain">>, Dict(<< <<"source", Str("forecast")>> >>)>>,
                <<0, <<"rain", "wind">>,
                  Dict(<< <<"window", Tuple(<<Num("1"), Num("2")>>)>> >>)>> } }

\* valid StructuredResponse instances
Instances ==
    { [model |-> "StructuredResponse", query |-> Query, items |-> items,
       summary |-> "Take an umbrella.", timestamp |-> "2024-01-01T00:00:00"]
      : items \in UNION { [1..n -> InstanceItems] : n \in 0..MaxItems } }

RECURSIVE PythonToJson(_)
\* the JSON value written for a Python value: a tuple is written as an array
PythonToJson(x) ==
    CASE x.kind \in {"tuple", "list"} ->
             List([i \in 1..Len(x.v) |-> PythonToJson(x.v[i])])
      [] x.kind = "dict" ->
             Dict([i \in 1..Len(x.v) |-> <<x.v[i][1], PythonToJson(x.v[i][2])>>])
      [] OTHER -> x

\* the literal written for a float, given in tenths
FloatLiteral(tenths) ==
    CASE tenths = 0  -> "0.0"
      [] tenths = 5  -> "0.5"
      [] tenths = 9  -> "0.9"
      [] tenths = 10 -> "1.0"

\* the members written for an instance, every field in the order of its declaration
ItemDump(item) ==
    Dict(<< <<"title", Str(item.title)>>,
            <<"description", Str(item.description)>>,
            <<"confidence", Num(FloatLiteral(item.confidence))>>,
            <<"tags", List([i \in 1..Len(item.tags) |-> Str(item.tags[i])])>>,
            <<"metadata", PythonToJson(item.metadata)>> >>)

model_dump(instance) ==
    Dict(<< <<"query", Str(instance.query)>>,
            <<"items", List([i \in 1..Len(instance.items) |-> ItemDump(instance.items[i])])>>,
            <<"summary", Str(instance.summary)>>,
            <<"timestamp", Str(instance.timestamp)>> >>)

\* instance.model_dump_json()
model_dump_json(instance) == Encode(model_dump(instance))

RECURSIVE ReverseMembers(_)
\* the same JSON value with the members of every object in the opposite order
ReverseMembers(x) ==
    CASE x.kind = "dict" ->
             Dict([i \in 1..Len(x.v) |->
                     <<x.v[Len(x.v) + 1 - i][1], ReverseMembers(x.v[Len(x.v) + 1 - i][2])>>])
      [] x.kind = "list" -> List([i \in 1..Len(x.v) |-> ReverseMembers(x.v[i])])
      [] OTHER -> x

\* the serializations of the instances, in the order of declaration and in the
\* opposite order
SerializedInstances ==
    UNION { {model_dump_json(instance), Encode(ReverseMembers(model_dump(instance)))}
            : instance \in Instances }

-----------------------------------------------------------------------------
(* The entry points *)

EntryInit ==
    /\ pc = "idle"
    /\ conversation = <<>>
    /\ function_calls = <<>>
    /\ call_count = 0
    /\ message = NoMessage
    /\ tool_calls_list = <<>>
    /\ next_tool = 1
    /\ result = NoResult
    /\ error = "none"
    /\ requests = <<>>
    /\ remote = "free"
    /\ max_function_calls = DefaultMaxFunctionCalls
    /\ tools = AVAILABLE_TOOLS
    /\ parallel_tool_calls = TRUE
    /\ invocations = <<>>
    /\ replies = <<>>
    /\ RunsUnused
    /\ entry \in EntryPoints
    /\ at = "idle"
    /\ api_key \in (IF entry = "multi_step_workflow" THEN {None} ELSE KeyArguments)
    /\ api_base \in (IF entry = "multi_step_workflow" THEN {None} ELSE BaseArguments)
    /\ environ \in Environments
    /\ prompt \in (IF entry = "llm_call_with_retry" THEN Prompts
                   ELSE {[type |-> "str", value |-> Query]})
    /\ output_schema \in (IF entry = "structured_output"
                          THEN {StructuredResponseSchema, DictSchema} ELSE {DictSchema})
    /\ TENACITY_AVAILABLE \in (IF entry \in {"llm_call_with_retry", "multi_step_workflow"}
                               THEN BOOLEAN ELSE {TRUE})
    /\ attempt_number = 1
    /\ sleeps = <<>>
    /\ wire = <<>>
    /\ finished = NoOutcome
    /\ results = <<>>

\* create_default_service(api_key, api_base, ...)
CreateDefaultService ==
    /\ entry = "create_default_service"
    /\ at = "idle"
    /\ LET client == AzureOpenAIClient(api_key, api_base, environ)
       IN  IF client.raised
           THEN /\ at' = "raised"
                /\ finished' = Raised(client.error, "none")
           ELSE /\ at' = "returned"
                /\ finished' = Returned(DefaultService(client))
    /\ UNCHANGED <<entry, api_key, api_base, environ, prompt, output_schema,
                   TENACITY_AVAILABLE, attempt_number, sleeps, wire>>
    /\ UNCHANGED results
    /\ UNCHANGED <<queryVars, runVars>>

\* one attempt of llm_call_with_retry: the call of llm_call and what the retry
\* wrapper does with its outcome; without tenacity the one call is the whole of it
Attempt(remote_outcome) ==
    /\ entry = "llm_call_with_retry"
    /\ at \in {"idle", "retrying"}
    /\ LET fut == llm_call(prompt, api_key, api_base, environ, remote_outcome)
       IN  /\ wire' = wire \o fut.sent
           /\ IF ~fut.raised
              THEN /\ at' = "returned"
                   /\ finished' = Returned(fut.value)
                   /\ UNCHANGED <<attempt_number, sleeps>>
              ELSE IF ~TENACITY_AVAILABLE \/ ~ShouldRetry(fut.error)
              THEN /\ at' = "raised"
                   /\ finished' = Raised(fut.error, "none")
                   /\ UNCHANGED <<attempt_number, sleeps>>
              ELSE IF stop_after_attempt(attempt_number)
              THEN /\ at' = "raised"
                   /\ finished' = Raised("RetryError", fut.error)
                   /\ UNCHANGED <<attempt_number, sleeps>>
              ELSE /\ at' = "retrying"
                   /\ sleeps' = Append(sleeps, wait_exponential(attempt_number))
                   /\ attempt_number' = attempt_number + 1
                   /\ UNCHANGED finished
    /\ UNCHANGED <<entry, api_key, api_base, environ, prompt, output_schema,
                   TENACITY_AVAILABLE>>
    /\ UNCHANGED results
    /\ UNCHANGED <<queryVars, runVars>>

LlmCallWithRetry ==
    /\ entry = "llm_call_with_retry"
    /\ \E remote_outcome \in RemoteOutcomes : Attempt(remote_outcome)

-----------------------------------------------------------------------------
(* call_azure_openai_with_structured_output *)

\* the documents the remote model writes: items that validate and items that do not
ItemOf(title, confidence_members, optional_members) ==
    Dict(<< <<"title", title>>, <<"description", Str("Keeps you dry")>> >>
         \o confidence_members \o optional_members)

Items ==
    { ItemOf(Str("Umbrella"), << <<"confidence", c>> >>, <<>>)
      : c \in {Num("1"), Num("1.5"), Num("-0.1"), Str("high"), Str("0.5")} }
    \cup { ItemOf(Str("Umbrella"), <<>>, <<>>),
           ItemOf(Num("1"), << <<"confidence", Num("0.9")>> >>, <<>>),
           ItemOf(Str("Umbrella"), << <<"confidence", Num("0.9")>> >>,
                  << <<"tags", List(<<Str("rain")>>)>>, <<"metadata", NullValue>> >>),
           ItemOf(Str("Umbrella"), << <<"confidence", Num("0.9")>> >>,
                  << <<"tags", NullValue>> >>),
           ItemOf(Str("Umbrella"), << <<"confidence", Num("0.9")>> >>,
                  << <<"metadata", Dict(<< <<"source", Str("forecast")>> >>)>>,
                     <<"rank", Num("1")>> >>) }

ItemLists == UNION { [1..n -> Items] : n \in 0..MaxItems }

DocumentOf(items, closing_members) ==
    Dict(<< <<"query", Str(Query)>>, <<"items", items>> >> \o closing_members)

ClosingMembers == << <<"summary", Str("Take an umbrella.")>>, <<"timestamp", Str("2024-01-01T00:00:00")>> >>

Documents ==
    { DocumentOf(List(items), ClosingMembers) : items \in ItemLists }
    \cup { DocumentOf(List(<<>>), << <<"timestamp", Str("2024-01-01T00:00:00")>> >>),
           DocumentOf(Str("none"), ClosingMembers),
           DocumentOf(List(<<Str("Umbrella")>>), ClosingMembers),
           List(<<Str("Umbrella")>>) }

\* the text of a reply: a document, the serialization of an instance, a document
\* within white space, a document that breaks off, a document after a sentence, and
\* no text at all
ReplyTexts ==
    { Encode(d) : d \in Documents }
    \cup SerializedInstances
    \cup { <<SpaceToken>> \o Encode(DocumentOf(List(<<>>), ClosingMembers)) \o <<SpaceToken>>,
           SubSeq(Encode(DocumentOf(List(<<>>), ClosingMembers)), 1, 7),
           <<WordToken("Here is the JSON:")>> \o Encode(DocumentOf(List(<<>>), ClosingMembers)),
           <<>> }

\* the responses to the request: message.content is a text or None
StructuredResponses == { Answer(text) : text \in ReplyTexts } \cup { NoContent }

\* the system message: the instructions with the schema written into them
SystemMessage(schema) ==
    [role    |-> "system",
     content |-> [instructions |-> "respond in JSON according to this schema",
                  schema       |-> schema.name]]

\* a request that comes without the response-format constraint
StructuredParamsUnconstrained(query, schema) ==
    [caller      |-> "call_azure_openai_with_structured_output",
     messages    |-> <<SystemMessage(schema), [role |-> "user", content |-> query]>>,
     temperature |-> DefaultTemperatureTenths,
     max_tokens  |-> DefaultMaxTokens]

\* completion_params
StructuredParams(query, schema) ==
    [caller          |-> "call_azure_openai_with_structured_output",
     messages        |-> <<SystemMessage(schema), [role |-> "user", content |-> query]>>,
     temperature     |-> DefaultTemperatureTenths,
     max_tokens      |-> DefaultMaxTokens,
     response_format |-> [type |-> "json_object"]]

\* a call that returns the parsed document whatever the schema
StructuredOutputUnvalidated(query, schema, key_arg, base_arg, env, response) ==
    LET client == AzureOpenAIClient(key_arg, base_arg, env)
        sent   == <<[request |-> StructuredParams(query, schema), response |-> response]>>
    IN  IF client.raised THEN [outcome |-> Raised(client.error, "none"), sent |-> <<>>]
        ELSE IF ~response.ok THEN [outcome |-> Raised(response.error, "none"), sent |-> sent]
        ELSE IF response.is_none THEN [outcome |-> Raised("AttributeError", "none"), sent |-> sent]
        ELSE LET parsed_response == JsonLoadsText(Strip(response.text))
             IN  IF ~parsed_response.ok
                 THEN [outcome |-> Raised("JSONDecodeError", "none"), sent |-> sent]
                 ELSE [outcome |-> Returned(parsed_response.value), sent |-> sent]

\* call_azure_openai_with_structured_output(query, output_schema=..., api_key=...,
\* api_base=...): what it returns or raises, and the requests it sent
call_azure_openai_with_structured_output(query, schema, key_arg, base_arg, env, response) ==
    LET client == AzureOpenAIClient(key_arg, base_arg, env)
        sent   == <<[request |-> StructuredParams(query, schema), response |-> response]>>
    IN  IF client.raised THEN [outcome |-> Raised(client.error, "none"), sent |-> <<>>]
        ELSE IF ~response.ok THEN [outcome |-> Raised(response.error, "none"), sent |-> sent]
        ELSE IF response.is_none THEN [outcome |-> Raised("AttributeError", "none"), sent |-> sent]
        ELSE LET parsed_response == JsonLoadsText(Strip(response.text))
             IN  IF ~parsed_response.ok
                 THEN [outcome |-> Raised("JSONDecodeError", "none"), sent |-> sent]
                 ELSE IF IsTypedSchema(schema)
                 THEN IF parsed_response.value.kind # "dict"
                      THEN [outcome |-> Raised("TypeError", "none"), sent |-> sent]
                      ELSE IF StructuredResponseErrors(parsed_response.value.v) # {}
                      THEN [outcome |-> Raised("ValidationError", "none"), sent |-> sent]
                      ELSE [outcome |-> Returned(StructuredResponse(parsed_response.value.v)),
                            sent    |-> sent]
                 ELSE [outcome |-> Returned(parsed_response.value), sent |-> sent]

\* one call of the function, with the response the remote API gives
StructuredOutput(response) ==
    /\ entry = "structured_output"
    /\ at = "idle"
    /\ LET call == call_azure_openai_with_structured_output(
                       Query, output_schema, api_key, api_base, environ, response)
       IN  /\ wire' = wire \o call.sent
           /\ finished' = call.outcome
           /\ at' = call.outcome.status
    /\ UNCHANGED <<entry, api_key, api_base, environ, prompt, output_schema,
                   TENACITY_AVAILABLE, attempt_number, sleeps>>
    /\ UNCHANGED results
    /\ UNCHANGED <<queryVars, runVars>>

\* the request is answered
StructuredOutputAnswered ==
    /\ entry = "structured_output"
    /\ at = "idle"
    /\ \E response \in StructuredResponses : StructuredOutput(response)

\* the request fails
StructuredOutputRequestFails ==
    /\ entry = "structured_output"
    /\ at = "idle"
    /\ \E c \in RequestFailures : StructuredOutput(Failure(c))

-----------------------------------------------------------------------------
(* multi_step_workflow *)

\* what llm_call_with_retry ends with, one outcome for each thing the remote API may
\* do: the response of an attempt that is answered, the failure of an attempt that is
\* not tried again, and the RetryError that ends a row of transient failures
RetryOutcomes(p, key_arg, base_arg, env, tenacity, remote_outcomes) ==
    { LET fut == llm_call(p, key_arg, base_arg, env, o)
      IN  IF ~fut.raised THEN Returned(fut.value)
          ELSE IF tenacity /\ ShouldRetry(fut.error) THEN Raised("RetryError", fut.error)
          ELSE Raised(fut.error, "none")
      : o \in remote_outcomes }

\* what the remote API does with a request of the workflow: as for llm_call, and also
\* an answer within white space and an answer without content
WorkflowRemoteOutcomes ==
    RemoteOutcomes
    \cup {Answer(<<SpaceToken, WordToken("It is rainy in London."), SpaceToken>>), NoContent}

\* analysis_prompt
AnalysisPrompt(user_query) ==
    [type  |-> "list",
     value |-> <<[role    |-> "system",
                  content |-> [text  |-> "You analyze user queries to determine their intent.",
                               about |-> <<>>]],
                 [role    |-> "user",
                  content |-> [text  |-> "Analyze this query and categorize the primary intent:",
                               about |-> <<WordToken(user_query)>>]]>>]

\* response_prompt
ResponsePrompt(user_query, intent_analysis) ==
    [type  |-> "list",
     value |-> <<[role    |-> "system",
                  content |-> [text  |-> "You are a helpful assistant providing information.",
                               about |-> <<>>]],
                 [role    |-> "user",
                  content |-> [text |-> "", about |-> <<WordToken(user_query)>>]],
                 [role    |-> "assistant",
                  content |-> [text  |-> "I understand your intent is related to:",
                               about |-> intent_analysis]],
                 [role    |-> "user",
                  content |-> [text  |-> "Please provide a helpful response to my query.",
                               about |-> <<>>]]>>]

\* a handler that returns what the workflow has gathered together with the error
WorkflowFailurePartial(gathered, exc) == SetItem(gathered, "error", exc)

\* except Exception as e: return {"error": str(e)}
WorkflowFailure(gathered, exc) == << <<"error", exc>> >>

\* one step of the workflow: the call of llm_call_with_retry with the prompt, the
\* text of the response stored under the key, and the return of the second step;
\* any exception, the AttributeError of a response without content included, ends
\* the workflow with the error dict
WorkflowStep(p, key, outcome, last) ==
    /\ wire' = Append(wire, [request |-> LlmCallRequest(p), response |-> outcome])
    /\ IF outcome.status = "raised"
       THEN /\ at' = "returned"
            /\ finished' = Returned(WorkflowFailure(results, outcome.error))
            /\ UNCHANGED results
       ELSE IF outcome.value.is_none
       THEN /\ at' = "returned"
            /\ finished' = Returned(WorkflowFailure(results, "AttributeError"))
            /\ UNCHANGED results
       ELSE /\ results' = SetItem(results, key, Strip(outcome.value.text))
            /\ IF last
               THEN at' = "returned" /\ finished' = Returned(results')
               ELSE at' = "analysed" /\ UNCHANGED finished
    /\ UNCHANGED <<entry, api_key, api_base, environ, prompt, output_schema,
                   TENACITY_AVAILABLE, attempt_number, sleeps>>
    /\ UNCHANGED <<queryVars, runVars>>

\* step 1: analyze the query to determine intent
AnalyzeIntent ==
    /\ entry = "multi_step_workflow"
    /\ at = "idle"
    /\ \E outcome \in RetryOutcomes(AnalysisPrompt(Query), api_key, api_base, environ,
                                    TENACITY_AVAILABLE, WorkflowRemoteOutcomes) :
          WorkflowStep(AnalysisPrompt(Query), "intent_analysis", outcome, FALSE)

\* step 2: generate a response based on the intent
GenerateAnswer ==
    /\ entry = "multi_step_workflow"
    /\ at = "analysed"
    /\ LET response_prompt == ResponsePrompt(Query, Lookup(results, "intent_analysis"))
       IN  \E outcome \in RetryOutcomes(response_prompt, api_key, api_base, environ,
                                        TENACITY_AVAILABLE, WorkflowRemoteOutcomes) :
              WorkflowStep(response_prompt, "final_answer", outcome, TRUE)

EntryNext ==
    \/ CreateDefaultService
    \/ LlmCallWithRetry
    \/ StructuredOutputAnswered
    \/ StructuredOutputRequestFails
    \/ AnalyzeIntent
    \/ GenerateAnswer

EntrySpec == EntryInit /\ [][EntryNext]_vars


-----------------------------------------------------------------------------
(* Vocabulary of the properties *)

Terminal == pc \in {"returned", "raised"}

Last(seq) == seq[Len(seq)]

\* an assistant message that records tool-call requests
IsToolTurn(m) == m.role = "assistant" /\ "tool_calls" \in DOMAIN m

IsToolMessage(m) == m.role = "tool"

\* the positions of the assistant messages with tool-call requests
ToolTurns(conv) == {k \in 1..Len(conv) : IsToolTurn(conv[k])}

\* the tool turn at position k is followed by exactly its N tool messages, the i-th
\* correlated with the i-th request
TurnAnswered(conv, k) ==
    LET tcs == conv[k].tool_calls
        n   == Len(tcs)
    IN  /\ k + n <= Len(conv)
        /\ \A i \in 1..n : /\ IsToolMessage(conv[k + i])
                           /\ conv[k + i].tool_call_id = tcs[i].id
        /\ k + n + 1 <= Len(conv) => ~IsToolMessage(conv[k + n + 1])

AllTurnsAnswered(conv) == \A k \in ToolTurns(conv) : TurnAnswered(conv, k)

\* dict.get("max_calls_reached", False) of a result
CeilingReached(res) == "max_calls_reached" \in DOMAIN res /\ res.max_calls_reached

CarriesTools(req) ==
    \/ "tools" \in DOMAIN req.params
    \/ "tool_choice" \in DOMAIN req.params
    \/ "parallel_tool_calls" \in DOMAIN req.params

LoopRequests == {j \in 1..Len(requests) : requests[j].site = "loop"}

FinalRequests == {j \in 1..Len(requests) : requests[j].site = "final"}

-----------------------------------------------------------------------------
(* C1: every tool turn with N requests is followed directly by exactly N tool
   messages, the i-th carrying the id of the i-th request, and all N are in place
   before the next completion request is issued: the messages of every request, and
   the conversation whenever the loop is about to issue a request or has returned,
   have all their tool turns answered; during the dispatch of a turn the messages
   after its assistant message answer the requests dispatched so far, in order. *)
C1_ToolMessagesCorrelated ==
    /\ \A j \in 1..Len(requests) : AllTurnsAnswered(requests[j].params.messages)
    /\ pc \in {"loop", "returned"} => AllTurnsAnswered(conversation)
    /\ pc \in {"dispatch", "raised"} /\ tool_calls_list # <<>> /\ error # "APIError" =>
          LET k == Len(conversation) - (next_tool - 1)
          IN  /\ k \in ToolTurns(conversation)
              /\ conversation[k].tool_calls = tool_calls_list
              /\ \A i \in 1..(next_tool - 1) :
                    /\ IsToolMessage(conversation[k + i])
                    /\ conversation[k + i].tool_call_id = tool_calls_list[i].id
              /\ \A k2 \in ToolTurns(conversation) \ {k} : TurnAnswered(conversation, k2)

\* a second request has been issued carrying a turn of two requests and its two answers
C1_Witness ==
    /\ Len(requests) >= 2
    /\ \E k \in ToolTurns(requests[2].params.messages) :
          /\ Len(requests[2].params.messages[k].tool_calls) = 2
          /\ requests[2].params.messages[k + 2].tool_call_id
                = requests[2].params.messages[k].tool_calls[2].id

-----------------------------------------------------------------------------
(* C2: whenever the loop has ended because the call count reached the ceiling, the
   next step issues one completion request on the conversation, without tools,
   tool_choice or parallel_tool_calls, and ends the run; when the request succeeds
   its reply is appended and returned as final_response with max_calls_reached =
   True; nothing is requested after the run has ended. *)
C2_Step ==
    /\ (pc = "loop" /\ call_count >= max_function_calls) =>
          /\ pc' \in {"returned", "raised"}
          /\ Len(requests') = Len(requests) + 1
          /\ SubSeq(requests', 1, Len(requests)) = requests
          /\ ~CarriesTools(Last(requests'))
          /\ Last(requests').params.messages = conversation
          /\ pc' = "returned" =>
                /\ conversation' = Append(conversation,
                                          [role |-> message'.role, content |-> message'.content])
                /\ "max_calls_reached" \in DOMAIN result'
                /\ result'.max_calls_reached = TRUE
                /\ result'.final_response = message'.content
                /\ result'.conversation = conversation'
    /\ Terminal => UNCHANGED vars

C2_FinalRequest == [][C2_Step]_vars

\* a run that dispatched tools, hit the ceiling and returned the closing text
C2_Witness ==
    /\ pc = "returned"
    /\ call_count >= max_function_calls
    /\ function_calls # <<>>
    /\ CeilingReached(result)
    /\ result.final_response = "It is rainy in London."
    /\ ~CarriesTools(Last(requests))

-----------------------------------------------------------------------------
\* the tool messages of a conversation, in order
ToolMessagesOf(conv) == SelectSeq(conv, IsToolMessage)

\* the run returned from inside the loop, on a reply without tool calls
NaturalStop == pc = "returned" /\ Last(requests).site = "loop"

(* C3 as stated: in every run in which the model produces a reply with zero
   tool-call requests, final_response equals that reply's text and function_calls is
   empty. *)
C3_Original ==
    NaturalStop =>
        /\ message.tool_calls = <<>>
        /\ result.final_response = message.content
        /\ result.function_calls = <<>>

(* C3 as amended: on a reply with zero tool-call requests final_response equals that
   reply's text (absent when the text is absent) and function_calls holds the
   records of the tool calls dispatched in the earlier turns, one per tool message
   of the conversation and in the same order; it is empty exactly when the reply is
   the first reply of the run. *)
C3_NaturalStopResult ==
    NaturalStop =>
        /\ message.tool_calls = <<>>
        /\ result.final_response = message.content
        /\ result.function_calls = function_calls
        /\ LET answers == ToolMessagesOf(result.conversation)
           IN  /\ Len(result.function_calls) = Len(answers)
               /\ \A i \in 1..Len(answers) :
                     /\ result.function_calls[i].function_name = answers[i].name
                     /\ JsonDumps(result.function_calls[i].function_response)
                           = answers[i].content
        /\ result.function_calls = <<>> <=> Len(requests) = 1

\* a natural stop on the first reply, with an absent text
C3_Witness ==
    /\ NaturalStop
    /\ Len(requests) = 1
    /\ result.function_calls = <<>>
    /\ result.final_response = None

-----------------------------------------------------------------------------
(* C4: a reply with zero tool-call requests is terminal: the step that receives it
   appends it and returns a result that does not report the ceiling as reached, and
   no step (so no completion request) follows a return. *)
C4_Step ==
    /\ (/\ pc = "loop"
        /\ call_count < max_function_calls
        /\ pc' # "raised"
        /\ message'.tool_calls = <<>>) =>
          /\ pc' = "returned"
          /\ conversation' = Append(conversation,
                                    [role    |-> message'.role,
                                     content |-> OrEmpty(message'.content)])
          /\ result'.conversation = conversation'
          /\ ~CeilingReached(result')
          /\ Len(requests') = Len(requests) + 1
    /\ pc = "returned" => UNCHANGED vars

C4_ZeroToolReplyTerminal == [][C4_Step]_vars

\* a natural stop after a turn that dispatched tools
C4_Witness ==
    /\ NaturalStop
    /\ function_calls # <<>>
    /\ ~CeilingReached(result)
    /\ Last(conversation).role = "assistant"
    /\ Last(conversation).content = "It is rainy in London."

-----------------------------------------------------------------------------
\* the run returned after the loop, on the reply to the final request
CeilingStop == pc = "returned" /\ Last(requests).site = "final"

\* the requests a run may issue, and the two ways in which it returns
C5_Bounds ==
    /\ Cardinality(LoopRequests) <= Max(0, max_function_calls)
    /\ Cardinality(FinalRequests) <= 1
    /\ \A j \in FinalRequests : j = Len(requests) /\ ~CarriesTools(requests[j])
    /\ pc = "returned" =>
          \/ NaturalStop /\ message.tool_calls = <<>> /\ call_count < max_function_calls
          \/ CeilingStop /\ call_count >= max_function_calls

\* what is left of the run, in lexicographic order: the call budget that remains,
\* then the position within the turn
C5_Variant ==
    CASE pc = "idle"     -> <<Max(0, max_function_calls) + 1, 0>>
      [] pc = "loop"     -> <<Max(0, max_function_calls - call_count), 2>>
      [] pc = "dispatch" -> <<Max(0, max_function_calls - call_count),
                              3 + Len(tool_calls_list) - next_tool>>
      [] OTHER           -> <<Max(0, max_function_calls - call_count), 0>>

LexLess(a, b) == a[1] < b[1] \/ (a[1] = b[1] /\ a[2] < b[2])

C5_Progress ==
    /\ LexLess(C5_Variant', C5_Variant)
    /\ C5_Variant'[1] >= 0
    /\ C5_Variant'[2] >= 0

\* a step is possible in every state that is not terminal: the call and the requests
\* are enabled, and during a dispatch a request of the turn is still to be handled
C5_NoStop ==
    \/ Terminal
    \/ pc = "dispatch" /\ next_tool <= Len(tool_calls_list)
    \/ pc \in {"idle", "loop"} /\ ENABLED (Start \/ FinalRequest \/ LoopRequest)

(* C5: when every completion request and every handler comes back, process_query
   reaches a terminal state for every ceiling and every sequence of replies: the run
   is never stuck in a state that is not terminal, and every step lowers a
   well-founded measure of what is left of the run, so no run goes on for ever.  It
   returns either on a reply with zero tool calls or after the count has reached the
   ceiling, and it issues at most max_function_calls requests inside the loop and at
   most one final request, which carries no tools. *)
C5_Termination ==
    /\ []C5_Bounds
    /\ []C5_NoStop
    /\ [][C5_Progress]_vars

\* a run that used up a ceiling of two in two turns and closed with the final request
C5_Witness ==
    /\ CeilingStop
    /\ max_function_calls = 2
    /\ Cardinality(LoopRequests) = 2
    /\ Cardinality(FinalRequests) = 1

-----------------------------------------------------------------------------
(* C6: with max_function_calls = 5 and a remote model that requests exactly one tool
   call in every turn of the loop, a run that returns has issued exactly 5 requests
   with tool definitions followed by exactly 1 request without, 6 in all, and
   returns max_calls_reached = True with 5 records. *)
C6_PathologicalModel ==
    (/\ pc = "returned"
     /\ max_function_calls = 5
     /\ tools # <<>>
     /\ Cardinality(ToolTurns(conversation)) = Cardinality(LoopRequests)
     /\ \A k \in ToolTurns(conversation) : Len(conversation[k].tool_calls) = 1) =>
        /\ Len(requests) = 6
        /\ \A j \in 1..5 : "tools" \in DOMAIN requests[j].params
        /\ ~CarriesTools(requests[6])
        /\ "max_calls_reached" \in DOMAIN result
        /\ result.max_calls_reached = TRUE
        /\ Len(result.function_calls) = 5
        /\ result.final_response = message.content

\* the scenario has run to its end
C6_Witness ==
    /\ pc = "returned"
    /\ remote = "one_call"
    /\ max_function_calls = 5
    /\ Len(requests) = 6
    /\ Len(result.function_calls) = 5

-----------------------------------------------------------------------------
RECURSIVE RequestedCalls(_)
\* the tool-call requests recorded in a conversation, turn after turn
RequestedCalls(conv) ==
    IF conv = <<>> THEN <<>>
    ELSE (IF IsToolTurn(conv[1]) THEN conv[1].tool_calls ELSE <<>>)
         \o RequestedCalls(Tail(conv))

\* the number of requests of the turns up to position k
RequestedUpTo(conv, k) == Len(RequestedCalls(SubSeq(conv, 1, k)))

(* C7: the call counter counts requests, not turns: it always equals the number of
   tool-call requests received so far.  A turn that brings the count to the ceiling
   or beyond, in particular a single first turn with at least max_function_calls
   requests, has all of its requests dispatched, is the last turn of the loop, and
   the only request issued after it is the final one without tools. *)
C7_CountsRequests ==
    /\ call_count = Len(RequestedCalls(conversation))
    /\ \A k \in ToolTurns(conversation) :
          RequestedUpTo(conversation, k) >= max_function_calls =>
             /\ \A k2 \in ToolTurns(conversation) : k2 <= k
             /\ pc \in {"loop", "returned"} =>
                   /\ TurnAnswered(conversation, k)
                   /\ Len(function_calls) = RequestedUpTo(conversation, k)
             /\ \A j \in 1..Len(requests) :
                   Len(requests[j].params.messages) >= k =>
                      /\ j = Len(requests)
                      /\ ~CarriesTools(requests[j])
                      /\ Len(requests[j].params.messages)
                            = k + Len(conversation[k].tool_calls)
             /\ pc = "returned" => CeilingReached(result)

\* one round trip with two requests against a ceiling of one: the count overshoots
C7_Witness ==
    /\ pc = "returned"
    /\ max_function_calls = 1
    /\ call_count = 2
    /\ Len(function_calls) = 2
    /\ Len(requests) = 2
    /\ CeilingReached(result)

-----------------------------------------------------------------------------
\* the request whose dispatch raised
FailedCall == tool_calls_list[next_tool]

DispatchRaised == pc = "raised" /\ error # "APIError"

\* the requests of the tool turn at position k of the conversation
TurnCalls(k) == conversation[k].tool_calls

Unregistered(tc) == tc.function.name \notin FUNCTION_REGISTRY

Parses(tc) == JsonLoads(tc.function.arguments).ok

(* C8 as stated: dispatching a request whose tool name is absent from the registry
   never raises and yields a record whose response payload is exactly
   {"error": "<name> not implemented"}.  The dispatch is taken from the point where
   the registry is consulted, that is, for an argument payload that parses. *)
C8_Original ==
    /\ \A i \in 1..Len(function_calls) :
          function_calls[i].function_name \notin FUNCTION_REGISTRY =>
             function_calls[i].function_response
                = << <<"error", function_calls[i].function_name \o " not implemented">> >>
    /\ DispatchRaised => ~(Unregistered(FailedCall) /\ Parses(FailedCall))

(* C8 as amended: dispatching a request whose tool name is absent from the registry
   (and whose argument payload parses) never raises and yields a record with the
   requested name, the parsed arguments and the response payload
   {"error": "Function <name> not implemented"}. *)
C8_NotImplementedPayload ==
    /\ \A i \in 1..Len(function_calls) :
          function_calls[i].function_name \notin FUNCTION_REGISTRY =>
             /\ function_calls[i].function_response
                   = << <<"error",
                          "Function " \o function_calls[i].function_name \o " not implemented">> >>
             /\ function_calls[i].function_name = RequestedCalls(conversation)[i].function.name
             /\ function_calls[i].function_args
                   = JsonLoads(RequestedCalls(conversation)[i].function.arguments).value
    /\ pc \in {"loop", "returned"} => Len(function_calls) = Len(RequestedCalls(conversation))
    /\ DispatchRaised => ~(Unregistered(FailedCall) /\ Parses(FailedCall))

\* a request for the unregistered get_stock_price has been dispatched
C8_Witness ==
    \E i \in 1..Len(function_calls) :
        /\ function_calls[i].function_name = "get_stock_price"
        /\ function_calls[i].function_response
              = << <<"error", "Function get_stock_price not implemented">> >>

-----------------------------------------------------------------------------
(* C9: a request that names an unregistered tool (and whose arguments parse, so that
   the registry is consulted) does not abort process_query: no failure of a dispatch
   is due to such a request; once it has been dispatched its synthesized error
   payload stands in the conversation as a tool message with the request's id, at
   the request's place after the assistant message; whenever the loop is back at its
   head or has returned, every such request of the conversation has been answered
   so; and every completion request issued after the turn carries that message. *)
C9_UnregisteredKeptInBand ==
    /\ DispatchRaised => ~(Unregistered(FailedCall) /\ Parses(FailedCall))
    /\ \A k \in ToolTurns(conversation) : \A i \in 1..Len(TurnCalls(k)) :
          (/\ Unregistered(TurnCalls(k)[i])
           /\ Parses(TurnCalls(k)[i])
           /\ \/ pc \in {"loop", "returned"}
              \/ k + i <= Len(conversation)) =>
             /\ k + i <= Len(conversation)
             /\ conversation[k + i]
                   = [role         |-> "tool",
                      tool_call_id |-> TurnCalls(k)[i].id,
                      name         |-> TurnCalls(k)[i].function.name,
                      content      |-> <<"{", "error", ":",
                                         "Function " \o TurnCalls(k)[i].function.name
                                            \o " not implemented",
                                         "}">>]
             /\ \A j \in 1..Len(requests) :
                   Len(requests[j].params.messages) >= k =>
                      /\ Len(requests[j].params.messages) >= k + i
                      /\ requests[j].params.messages[k + i] = conversation[k + i]

\* the second completion request carries the answer to an unregistered tool
C9_Witness ==
    /\ Len(requests) >= 2
    /\ CarriesTools(requests[2])
    /\ \E m \in 1..Len(requests[2].params.messages) :
          /\ requests[2].params.messages[m].role = "tool"
          /\ requests[2].params.messages[m].name = "get_stock_price"

-----------------------------------------------------------------------------
(* C10: a request whose argument payload fails to parse aborts process_query with
   the parse failure: such a request never gets a record or a tool message, the run
   never gets past it (it neither returns nor reaches the next completion request),
   the requests after it in the turn are not dispatched, and when the dispatch has
   reached it the run has ended with JSONDecodeError and without a result. *)
C10_ParseFailureAborts ==
    /\ \A k \in ToolTurns(conversation) : \A i \in 1..Len(TurnCalls(k)) :
          ~Parses(TurnCalls(k)[i]) =>
             /\ Len(conversation) < k + i
             /\ Len(function_calls) < RequestedUpTo(conversation, k - 1) + i
             /\ pc \in {"dispatch", "raised"}
             /\ next_tool <= i
             /\ result = NoResult
             /\ \A j \in 1..Len(requests) : Len(requests[j].params.messages) < k
             /\ (pc = "raised" /\ next_tool = i) => error = "JSONDecodeError"
    /\ (DispatchRaised /\ error = "JSONDecodeError") => ~Parses(FailedCall)
    /\ pc = "raised" => result = NoResult

\* in a second turn the first of two requests fails to parse: the run stops there
C10_Witness ==
    /\ pc = "raised"
    /\ error = "JSONDecodeError"
    /\ function_calls # <<>>
    /\ Len(tool_calls_list) = 2
    /\ next_tool = 1
    /\ Last(conversation).role = "assistant"


-----------------------------------------------------------------------------
\* the request names a registered tool, its arguments parse, and the handler fails
\* when it is invoked with them
HandlerFails(tc) ==
    /\ tc.function.name \in FUNCTION_REGISTRY
    /\ Parses(tc)
    /\ CallFunction(tc.function.name, JsonLoads(tc.function.arguments).value).raised

(* C11: a registered handler that fails while process_query dispatches it aborts the
   run with that failure: the failing request never gets a record or a tool message,
   the run never gets past it (no result, not even one with the records collected so
   far, and no further completion request), the requests after it in the turn are
   not dispatched, and when the dispatch has reached it the run has ended with the
   handler's failure. *)
C11_HandlerFailureAborts ==
    /\ \A k \in ToolTurns(conversation) : \A i \in 1..Len(TurnCalls(k)) :
          HandlerFails(TurnCalls(k)[i]) =>
             /\ Len(conversation) < k + i
             /\ Len(function_calls) < RequestedUpTo(conversation, k - 1) + i
             /\ pc \in {"dispatch", "raised"}
             /\ next_tool <= i
             /\ result = NoResult
             /\ \A j \in 1..Len(requests) : Len(requests[j].params.messages) < k
             /\ (pc = "raised" /\ next_tool = i) => error = "TypeError"
    /\ (DispatchRaised /\ error = "TypeError") =>
          /\ HandlerFails(FailedCall)
          /\ result = NoResult
          /\ Len(function_calls)
                = RequestedUpTo(conversation, Len(conversation) - next_tool) + next_tool - 1

\* in a second turn the first of two handlers fails: the record of the first turn is
\* lost with the run
C11_Witness ==
    /\ pc = "raised"
    /\ error = "TypeError"
    /\ function_calls # <<>>
    /\ Len(tool_calls_list) = 2
    /\ next_tool = 1
    /\ result = NoResult

-----------------------------------------------------------------------------
\* the replies of the remote model that stand in a conversation
Replies(conv) == SelectSeq(conv, LAMBDA m : m.role = "assistant")

RequestFailed == pc = "raised" /\ error = "APIError"

\* a failed request ends the run without a result; a result exists only after a
\* return on one of the two clean paths; every request but a failed last one has
\* been answered by exactly one reply, so no request was issued twice
C12_State ==
    /\ pc = "raised" => result = NoResult
    /\ result # NoResult => pc = "returned" /\ error = "none" /\ (NaturalStop \/ CeilingStop)
    /\ Len(requests) = Len(Replies(conversation)) + (IF RequestFailed THEN 1 ELSE 0)
    /\ RequestFailed => \A j \in 1..(Len(requests) - 1) :
                            Len(requests[j].params.messages)
                               < Len(Last(requests).params.messages)

\* the step in which a request fails issues that one request and ends the run; no
\* step follows
C12_Step ==
    /\ (error' = "APIError" /\ error # "APIError") =>
          /\ pc = "loop"
          /\ pc' = "raised"
          /\ requests' = Append(requests, Last(requests'))
          /\ Last(requests').params.messages = conversation
          /\ Last(requests').site
                = (IF call_count < max_function_calls THEN "loop" ELSE "final")
          /\ result' = NoResult
          /\ UNCHANGED <<conversation, function_calls, call_count>>
    /\ pc = "raised" => UNCHANGED vars

(* C12: a completion request of process_query that fails, in the loop or after it,
   is not retried: it is the last request of the run, the failure is raised to the
   caller and no result is returned; a result is produced only on the natural-stop
   path or the ceiling close-out path. *)
C12_RequestFailureAborts == []C12_State /\ [][C12_Step]_vars

\* the final request without tools fails after a turn that dispatched tools
C12_Witness ==
    /\ RequestFailed
    /\ Last(requests).site = "final"
    /\ function_calls # <<>>
    /\ result = NoResult

-----------------------------------------------------------------------------
\* records and tool messages stand in the order of the requests, turn after turn, and
\* grow together; during a dispatch exactly the first next_tool - 1 requests of the
\* turn have been handled; the returned list is the whole concatenation
C13_State ==
    LET calls   == RequestedCalls(conversation)
        answers == ToolMessagesOf(conversation)
    IN  /\ Len(function_calls) = Len(answers)
        /\ Len(function_calls) <= Len(calls)
        /\ \A i \in 1..Len(function_calls) :
              /\ function_calls[i].function_name = calls[i].function.name
              /\ function_calls[i].function_args = JsonLoads(calls[i].function.arguments).value
              /\ answers[i].tool_call_id = calls[i].id
        /\ pc = "dispatch" =>
              Len(function_calls) = Len(calls) - Len(tool_calls_list) + next_tool - 1
        /\ pc = "returned" =>
              /\ result.function_calls = function_calls
              /\ Len(result.function_calls) = Len(calls)

\* a step of the for loop handles the request at next_tool and nothing else: its
\* record and its tool message are appended in the same step, before the next
\* request of the turn is looked at
C13_Step ==
    (pc = "dispatch" /\ pc' # "raised") =>
        /\ next_tool' = next_tool + 1
        /\ Len(function_calls') = Len(function_calls) + 1
        /\ SubSeq(function_calls', 1, Len(function_calls)) = function_calls
        /\ Last(function_calls').function_name = tool_calls_list[next_tool].function.name
        /\ Len(conversation') = Len(conversation) + 1
        /\ SubSeq(conversation', 1, Len(conversation)) = conversation
        /\ Last(conversation').role = "tool"
        /\ Last(conversation').tool_call_id = tool_calls_list[next_tool].id
        /\ UNCHANGED <<requests, tool_calls_list, parallel_tool_calls>>

(* C13: tool calls are dispatched one at a time in the order the model returned
   them, whatever the value of parallel_tool_calls: request i+1 of a turn is handled
   only after the record and the tool message of request i have been appended, and
   the returned function_calls list is the concatenation, turn after turn, of the
   requests in that order. *)
C13_SequentialDispatch == []C13_State /\ [][C13_Step]_vars

\* with parallel_tool_calls off, a turn of one and a turn of two different requests
\* have been dispatched and returned in the order of the requests
C13_Witness ==
    /\ pc = "returned"
    /\ ~parallel_tool_calls
    /\ tools # <<>>
    /\ Len(result.function_calls) = 3
    /\ result.function_calls[2].function_name = "get_stock_price"
    /\ result.function_calls[3].function_name = "get_weather"
    /\ Cardinality(ToolTurns(conversation)) = 2

-----------------------------------------------------------------------------
\* the response payload that execute_tool produces for a request it answers
ExpectedResponse(tc) ==
    IF tc.function.name \in FUNCTION_REGISTRY
    THEN CallFunction(tc.function.name, JsonLoads(tc.function.arguments).value).value
    ELSE << <<"error", "Function " \o tc.function.name \o " not implemented">> >>

(* C14: for every request that execute_tool has answered, in the registered and the
   unregistered branch alike, the record holds exactly the request's tool name, the
   parsed arguments and the response payload, and the message holds exactly role
   "tool", tool_call_id = the request's id, name = the tool name and content = the
   JSON serialization of that same payload. *)
C14_RecordAndMessageShape ==
    LET calls   == RequestedCalls(conversation)
        answers == ToolMessagesOf(conversation)
    IN  /\ Len(function_calls) = Len(answers)
        /\ \A i \in 1..Len(function_calls) :
              LET tc  == calls[i]
                  rec == function_calls[i]
                  msg == answers[i]
              IN  /\ Parses(tc)
                  /\ DOMAIN rec = {"function_name", "function_args", "function_response"}
                  /\ rec.function_name = tc.function.name
                  /\ rec.function_args = JsonLoads(tc.function.arguments).value
                  /\ rec.function_response = ExpectedResponse(tc)
                  /\ DOMAIN msg = {"role", "tool_call_id", "name", "content"}
                  /\ msg.role = "tool"
                  /\ msg.tool_call_id = tc.id
                  /\ msg.name = tc.function.name
                  /\ msg.content = JsonDumps(rec.function_response)
                  /\ (tc.function.name = "get_stock_price" /\ tc.function.arguments = ArgsEmpty) =>
                        /\ rec.function_args = <<>>
                        /\ msg.content = <<"{", "error", ":",
                                           "Function get_stock_price not implemented", "}">>
                  /\ (tc.function.name = "get_weather" /\ tc.function.arguments = ArgsLondon) =>
                        /\ rec.function_args
                              = << <<"location", "London">>, <<"unit", "fahrenheit">> >>
                        /\ SubSeq(msg.content, 1, 9)
                              = <<"{", "location", ":", "London", ",",
                                  "temperature", ":", "59", ",">>

\* one turn has had a registered and an unregistered request answered
C14_Witness ==
    /\ Len(function_calls) = 2
    /\ Len(tool_calls_list) = 2
    /\ function_calls[1].function_name = "get_weather"
    /\ function_calls[1].function_args # <<>>
    /\ function_calls[2].function_name = "get_stock_price"
    /\ Last(conversation).name = "get_stock_price"

-----------------------------------------------------------------------------
(* Vocabulary of the properties of the entry points *)

Ended == at \in {"returned", "raised"}

\* neither passed nor found in the environment
KeyMissing == api_key \in {None, ""} /\ environ.AZURE_OPENAI_API_KEY = None

EndpointMissing == api_base \in {None, ""} /\ environ.AZURE_OPENAI_ENDPOINT = None

(* C15: when the API key or the endpoint is missing (neither passed nor found in the
   environment), the call of create_default_service, of llm_call_with_retry and of
   the structured-output function ends with the configuration error ValueError, on
   its first attempt and without a wait, and no request is ever sent to the remote
   API in that run; with both in place the configuration error does not occur. *)
C15_MissingCredentialsFailFast ==
    entry \in {"create_default_service", "llm_call_with_retry", "structured_output"} =>
        /\ (KeyMissing \/ EndpointMissing) =>
              /\ wire = <<>>
              /\ at \in {"idle", "raised"}
              /\ attempt_number = 1
              /\ sleeps = <<>>
              /\ at = "raised" => finished = Raised("ValueError", "none")
        /\ ~(KeyMissing \/ EndpointMissing) => finished.error # "ValueError"

\* the key is passed, the endpoint is neither passed nor set, and the retry wrapper
\* has given up at once
C15_Witness ==
    /\ entry = "llm_call_with_retry"
    /\ TENACITY_AVAILABLE
    /\ api_key = "key"
    /\ EndpointMissing
    /\ at = "raised"
    /\ finished.error = "ValueError"
    /\ wire = <<>>

\* the same for the client of the structured-output call, the key found nowhere
C15_WitnessClient ==
    /\ entry = "structured_output"
    /\ KeyMissing
    /\ ~EndpointMissing
    /\ at = "raised"
    /\ finished.error = "ValueError"

-----------------------------------------------------------------------------
RetryRun == entry = "llm_call_with_retry" /\ TENACITY_AVAILABLE

\* the classes after which the wrapper tries again: rate limit, timeout, and the
\* generic API error, of which the unavailable service and every other error of the
\* SDK are instances
TransientClasses == {"RateLimitError", "APITimeoutError", "APIError"}

Transient(cls) == IsInstance(cls, TransientClasses)

(* C16: llm_call_with_retry, with the retry wrapper available, makes at most 5
   attempts of llm_call; it tries again only after an attempt that failed with a
   transient class; it stops at the first attempt that succeeds and returns its
   reply; a failure of any other class ends the call with that failure at once, the
   configuration error on the first and only attempt; and once 5 attempts have
   failed the call ends with a failure (tenacity's RetryError, which carries the
   last one). *)
C16_BoundedRetry ==
    RetryRun =>
        /\ attempt_number \in 1..5
        /\ Len(wire) <= 5
        /\ Len(sleeps) = attempt_number - 1
        /\ \A i \in 1..(attempt_number - 1) :
              /\ i <= Len(wire)
              /\ ~wire[i].response.ok
              /\ Transient(wire[i].response.error)
        /\ at = "retrying" => Len(wire) = attempt_number - 1 /\ finished = NoOutcome
        /\ at = "returned" =>
              /\ Len(wire) = attempt_number
              /\ Last(wire).response.ok
              /\ finished = Returned(Last(wire).response)
        /\ (at = "raised" /\ finished.error = "ValueError") =>
              attempt_number = 1 /\ wire = <<>>
        /\ (at = "raised" /\ finished.error \notin {"ValueError", "RetryError"}) =>
              /\ Len(wire) = attempt_number
              /\ Last(wire).response.error = finished.error
              /\ ~Transient(finished.error)
        /\ (at = "raised" /\ finished.error = "RetryError") =>
              /\ attempt_number = 5
              /\ Len(wire) = 5
              /\ \A i \in 1..5 : ~wire[i].response.ok /\ Transient(wire[i].response.error)
              /\ finished.cause = wire[5].response.error
        /\ (at = "raised" /\ Len(wire) = 5 /\ Transient(Last(wire).response.error)) =>
              finished.error = "RetryError"

\* a rate limit, a timeout and an unavailable service, then the reply on the fourth
\* attempt
C16_Witness ==
    /\ RetryRun
    /\ at = "returned"
    /\ attempt_number = 4
    /\ Len(wire) = 4
    /\ wire[1].response.error = "RateLimitError"
    /\ wire[2].response.error = "APITimeoutError"
    /\ wire[3].response.error = "APIError"
    /\ finished.value.ok

\* five transient failures: the wrapper gives up
C16_WitnessExhausted ==
    /\ RetryRun
    /\ at = "raised"
    /\ finished.error = "RetryError"
    /\ Len(wire) = 5

-----------------------------------------------------------------------------
(* C17 as stated: the wait that llm_call_with_retry inserts after the k-th failed
   attempt (k = 1..4) is min(60, 2 * 2^(k-1)) time units: it starts at 2, doubles
   with each further attempt, and never exceeds 60. *)
C17_Original ==
    RetryRun =>
        \A k \in 1..Len(sleeps) :
            /\ sleeps[k] = Min(60, 2 * Power(2, k - 1))
            /\ k > 1 => sleeps[k] = 2 * sleeps[k - 1]

(* C17 as amended: the wait that llm_call_with_retry inserts after the k-th failed
   attempt (k = 1..4) is max(2, min(60, 2^(k-1))) time units, that is 2, 2, 4, 8: it
   starts at 2, stays at 2 after the second failure, doubles from then on, and never
   exceeds 60; there is no wait after the fifth failure. *)
C17_Backoff ==
    RetryRun =>
        /\ Len(sleeps) <= 4
        /\ \A k \in 1..Len(sleeps) :
              /\ sleeps[k] = Max(2, Min(60, Power(2, k - 1)))
              /\ sleeps[k] = <<2, 2, 4, 8>>[k]
              /\ sleeps[k] >= 2
              /\ sleeps[k] <= 60
              /\ k > 2 => sleeps[k] = 2 * sleeps[k - 1]
        /\ at = "retrying" => Len(sleeps) = Len(wire)
        /\ (at = "raised" /\ finished.error = "RetryError") => Len(sleeps) = 4

\* four failed attempts have been followed by their waits
C17_Witness ==
    /\ RetryRun
    /\ at = "retrying"
    /\ attempt_number = 5
    /\ sleeps = <<2, 2, 4, 8>>

-----------------------------------------------------------------------------
StructuredRun == entry = "structured_output"

\* the response to the one request of the structured-output call, and what
\* json.loads makes of its text
Reply == wire[1].response

ReplyParsed == JsonLoadsText(Strip(Reply.text))

(* C18: call_azure_openai_with_structured_output issues exactly one completion
   request per invocation that gets as far as the request (the client is configured),
   and never more than one; that request carries exactly two messages, a system
   instruction followed by the user query, a response-format constraint of type JSON
   object, and no tool definitions. *)
C18_SingleRequest ==
    StructuredRun =>
        /\ Len(wire) <= 1
        /\ (Ended /\ ~(KeyMissing \/ EndpointMissing)) => Len(wire) = 1
        /\ at = "idle" => wire = <<>>
        /\ \A j \in 1..Len(wire) :
              LET params == wire[j].request
              IN  /\ Len(params.messages) = 2
                  /\ params.messages[1].role = "system"
                  /\ params.messages[1].content.schema = output_schema.name
                  /\ params.messages[2] = [role |-> "user", content |-> Query]
                  /\ "response_format" \in DOMAIN params
                  /\ params.response_format = [type |-> "json_object"]
                  /\ DOMAIN params \cap {"tools", "tool_choice", "parallel_tool_calls",
                                         "functions"} = {}

\* a call with the typed schema has sent its request and returned a document
C18_Witness ==
    /\ StructuredRun
    /\ at = "returned"
    /\ output_schema = StructuredResponseSchema
    /\ Len(wire) = 1
    /\ wire[1].request.response_format.type = "json_object"

-----------------------------------------------------------------------------
\* member f of the dict d is present and of one of the kinds
MemberIs(d, f, kinds) == HasKey(d, f) /\ Lookup(d, f).kind \in kinds

\* a value that the float field confidence takes, within [0, 1]: a number, or a
\* string that reads as one
ConfidenceConforms(x) ==
    \/ x.kind = "number" /\ x.v \in {"0.0", "0.5", "0.9", "1", "1.0"}
    \/ x.kind = "str" /\ x.v \in {"0.0", "0.5", "0.9", "1", "1.0"}

\* the parsed value is an item as ResponseItem declares it
ItemConforms(x) ==
    /\ x.kind = "dict"
    /\ MemberIs(x.v, "title", {"str"})
    /\ MemberIs(x.v, "description", {"str"})
    /\ HasKey(x.v, "confidence")
    /\ ConfidenceConforms(Lookup(x.v, "confidence"))
    /\ HasKey(x.v, "tags") =>
          /\ Lookup(x.v, "tags").kind = "list"
          /\ \A i \in 1..Len(Lookup(x.v, "tags").v) : Lookup(x.v, "tags").v[i].kind = "str"
    /\ HasKey(x.v, "metadata") => Lookup(x.v, "metadata").kind \in {"null", "dict"}

\* the parsed value is a document as StructuredResponse declares it
Conforms(x) ==
    /\ x.kind = "dict"
    /\ MemberIs(x.v, "query", {"str"})
    /\ MemberIs(x.v, "summary", {"str"})
    /\ MemberIs(x.v, "timestamp", {"str"})
    /\ MemberIs(x.v, "items", {"list"})
    /\ \A i \in 1..Len(Lookup(x.v, "items").v) : ItemConforms(Lookup(x.v, "items").v[i])

\* the request of the structured-output call has been answered
Answered == StructuredRun /\ Ended /\ wire # <<>> /\ Reply.ok

(* C19: in call_azure_openai_with_structured_output a reply that is not parseable
   JSON (no text at all included), or that parses but violates the typed schema,
   makes the call fail: the failure is raised to the caller (the parse failure, or
   with a typed schema the validation failure), no document is returned, and no
   second completion request is issued. *)
C19_BadReplyFails ==
    Answered =>
        /\ (Reply.is_none \/ ~ReplyParsed.ok) =>
              /\ at = "raised"
              /\ finished.value = None
              /\ finished.error = (IF Reply.is_none THEN "AttributeError" ELSE "JSONDecodeError")
              /\ Len(wire) = 1
        /\ (~Reply.is_none /\ ReplyParsed.ok /\ IsTypedSchema(output_schema)
            /\ ~Conforms(ReplyParsed.value)) =>
              /\ at = "raised"
              /\ finished.value = None
              /\ finished.error = (IF ReplyParsed.value.kind = "dict"
                                   THEN "ValidationError" ELSE "TypeError")
              /\ Len(wire) = 1
        /\ at = "raised" => finished.value = None

\* a document whose one item has a confidence of 1.5 was rejected by the typed schema
C19_Witness ==
    /\ Answered
    /\ output_schema = StructuredResponseSchema
    /\ ~Reply.is_none
    /\ ReplyParsed.ok
    /\ ReplyParsed.value.kind = "dict"
    /\ HasKey(ReplyParsed.value.v, "items")
    /\ Lookup(ReplyParsed.value.v, "items") = List(<<ItemOf(Str("Umbrella"), << <<"confidence", Num("1.5")>> >>, <<>>)>>)
    /\ at = "raised"
    /\ finished.error = "ValidationError"

\* a document that breaks off was rejected by json.loads
C19_WitnessParse ==
    /\ Answered
    /\ ~Reply.is_none
    /\ Reply.text # <<>>
    /\ Reply.text[1] = Punct("{")
    /\ ~ReplyParsed.ok
    /\ at = "raised"
    /\ finished.error = "JSONDecodeError"

-----------------------------------------------------------------------------
\* the value in tenths that the typed document holds for a confidence member
ConfidenceTenths(x) ==
    CASE x.v = "0.0" -> 0
      [] x.v = "0.5" -> 5
      [] x.v = "0.9" -> 9
      [] x.v = "1"   -> 10
      [] x.v = "1.0" -> 10

\* the typed item holds what the parsed item holds, with the defaults for the
\* optional fields that are absent
ItemTyped(item, x) ==
    /\ item.model = "ResponseItem"
    /\ item.title = Lookup(x.v, "title").v
    /\ item.description = Lookup(x.v, "description").v
    /\ item.confidence = ConfidenceTenths(Lookup(x.v, "confidence"))
    /\ item.confidence >= 0
    /\ item.confidence <= 10
    /\ IF HasKey(x.v, "tags")
       THEN /\ Len(item.tags) = Len(Lookup(x.v, "tags").v)
            /\ \A i \in 1..Len(item.tags) : item.tags[i] = Lookup(x.v, "tags").v[i].v
       ELSE item.tags = <<>>
    /\ item.metadata = (IF HasKey(x.v, "metadata") THEN Lookup(x.v, "metadata") ELSE NullValue)
    /\ DOMAIN item = {"model", "title", "description", "confidence", "tags", "metadata"}

\* every required field of the parsed document is present with exactly the declared
\* type, the confidence of every item being a number within [0, 1]
DeclaredTypes(x) ==
    /\ Conforms(x)
    /\ \A i \in 1..Len(Lookup(x.v, "items").v) :
          Lookup(Lookup(x.v, "items").v[i].v, "confidence").kind = "number"

(* C20 as stated: the function validates the parsed document exactly when the caller
   supplied a typed schema: with a typed schema it returns a typed document only if
   every required field is present with the declared type and every declared numeric
   range holds, absent optional fields taking their defaults; with a bare dict
   schema it returns the raw parsed JSON without any validation. *)
C20_Original ==
    (Answered /\ ~Reply.is_none /\ ReplyParsed.ok) =>
        IF IsTypedSchema(output_schema)
        THEN at = "returned" => DeclaredTypes(ReplyParsed.value)
        ELSE at = "returned" /\ finished.value = ReplyParsed.value

(* C20 as amended: call_azure_openai_with_structured_output validates the parsed document
   exactly when the caller supplied a typed schema.  With the typed schema a reply
   that parses is answered with a typed document if and only if every required field
   is present with a value of the declared type (for the float field a number, or a
   string that reads as one, which is converted) and the confidence of every item is
   within [0, 1]; the typed document holds the values of the parsed one, an absent
   tags being the empty list and an absent metadata None.  With a bare dict schema
   every reply that parses is answered with the raw parsed JSON, whatever it holds. *)
C20_ValidatesTypedSchemaOnly ==
    (Answered /\ ~Reply.is_none /\ ReplyParsed.ok) =>
        IF IsTypedSchema(output_schema)
        THEN /\ at = "returned" <=> Conforms(ReplyParsed.value)
             /\ at = "returned" =>
                  LET document == finished.value
                      parsed   == ReplyParsed.value.v
                  IN  /\ document.model = "StructuredResponse"
                      /\ document.query = Lookup(parsed, "query").v
                      /\ document.summary = Lookup(parsed, "summary").v
                      /\ document.timestamp = Lookup(parsed, "timestamp").v
                      /\ Len(document.items) = Len(Lookup(parsed, "items").v)
                      /\ \A i \in 1..Len(document.items) :
                            ItemTyped(document.items[i], Lookup(parsed, "items").v[i])
        ELSE /\ at = "returned"
             /\ finished.value = ReplyParsed.value

\* the typed schema has accepted a document whose one item has the boundary
\* confidence 1 and neither tags nor metadata: the defaults are in the typed item
C20_Witness ==
    /\ Answered
    /\ output_schema = StructuredResponseSchema
    /\ at = "returned"
    /\ Len(finished.value.items) = 1
    /\ finished.value.items[1].confidence = 10
    /\ finished.value.items[1].tags = <<>>
    /\ finished.value.items[1].metadata = NullValue

\* the bare dict schema has let through a document that the typed schema rejects
C20_WitnessRaw ==
    /\ Answered
    /\ output_schema = DictSchema
    /\ at = "returned"
    /\ ~Conforms(ReplyParsed.value)
    /\ finished.value = ReplyParsed.value
-----------------------------------------------------------------------------
ToolParameters == {"tools", "tool_choice", "parallel_tool_calls"}

(* C23: every completion request issued inside the loop carries the tool
   definitions, tool_choice = "auto" and the caller's parallel_tool_calls flag
   exactly when the tool provider returns a non-empty list; with an empty list the
   request carries none of the three parameters. *)
C23_ToolParameters ==
    \A j \in LoopRequests :
        LET p == requests[j].params
        IN  IF tools # <<>>
            THEN /\ ToolParameters \subseteq DOMAIN p
                 /\ p.tools = tools
                 /\ p.tool_choice = "auto"
                 /\ p.parallel_tool_calls = parallel_tool_calls
            ELSE ToolParameters \cap DOMAIN p = {}

\* two requests of the loop with the tools offered and the flag switched off
C23_Witness ==
    /\ tools # <<>>
    /\ parallel_tool_calls = FALSE
    /\ Cardinality(LoopRequests) = 2
    /\ \A j \in LoopRequests : requests[j].params.parallel_tool_calls = FALSE

\* a request of the loop of a service whose provider offers no tool
C23_WitnessEmpty ==
    /\ tools = <<>>
    /\ pc = "returned"
    /\ LoopRequests = {1}
    /\ DOMAIN requests[1].params = {"messages", "temperature", "max_tokens"}
-----------------------------------------------------------------------------
\* s is an initial segment of t
IsPrefix(s, t) == Len(s) <= Len(t) /\ SubSeq(t, 1, Len(s)) = s

IsStrictPrefix(s, t) == Len(s) < Len(t) /\ SubSeq(t, 1, Len(s)) = s

UserMessage == [role |-> "user", content |-> Query]

\* the conversation once seeded: the query first, and no other user message; the
\* messages of each request extend those of the request before and are still the
\* head of the conversation
C24_State ==
    /\ pc # "idle" =>
          /\ Len(conversation) >= 1
          /\ conversation[1] = UserMessage
          /\ \A k \in 2..Len(conversation) : conversation[k].role # "user"
    /\ requests # <<>> => requests[1].params.messages = <<UserMessage>>
    /\ \A j \in 2..Len(requests) :
          IsStrictPrefix(requests[j - 1].params.messages, requests[j].params.messages)
    /\ \A j \in 1..Len(requests) : IsPrefix(requests[j].params.messages, conversation)

\* a step leaves every message in place and adds at most one; the assistant
\* message of a reply with tool calls is replaced within the step that appends it
C24_Step ==
    /\ IsPrefix(conversation, conversation')
    /\ Len(conversation') <= Len(conversation) + 1

(* C24: the conversation of a run starts with exactly one user message holding the
   query and only grows: the messages carried by each completion request have the
   messages of the previous request as a strict prefix, unchanged; the only
   replacement in place is that of the assistant message just appended, before any
   later request is issued. *)
C24_AppendOnly == []C24_State /\ [][C24_Step]_vars

\* three requests, each on a longer conversation: a turn of one call, a turn of
\* two, and the final request
C24_Witness ==
    /\ pc = "returned"
    /\ Len(requests) = 3
    /\ Len(requests[1].params.messages) = 1
    /\ Len(requests[2].params.messages) = 3
    /\ Len(requests[3].params.messages) = 6
    /\ IsToolTurn(conversation[2])
    /\ IsToolTurn(conversation[4])
-----------------------------------------------------------------------------
\* the number of requests of the last tool turn of a conversation, none without a turn
LastTurnSize(conv) ==
    IF ToolTurns(conv) = {} THEN 0
    ELSE LET k == CHOOSE k \in ToolTurns(conv) : \A k2 \in ToolTurns(conv) : k2 <= k
         IN  Len(conv[k].tool_calls)

\* the state in which the loop is about to issue a request
AtLoopRequest == pc = "loop" /\ LoopCondition(call_count, max_function_calls)

\* the counter where the loop issues a request
C25_AtRequest ==
    AtLoopRequest =>
        /\ call_count = Len(function_calls)
        /\ call_count = Len(ToolMessagesOf(conversation))
        /\ call_count < max_function_calls

\* every request of the loop was issued on a conversation with fewer tool messages
\* than the ceiling
C25_Requests ==
    \A j \in LoopRequests :
        Len(ToolMessagesOf(requests[j].params.messages)) < max_function_calls

\* a request of the loop is issued from such a state only
C25_Step ==
    (requests' # requests /\ Last(requests').site = "loop") =>
        /\ AtLoopRequest
        /\ call_count = Len(ToolMessagesOf(Last(requests').params.messages))

(* C25 as stated: at every completion request issued inside the loop the call
   counter equals the length of function_calls and the number of tool messages in
   the conversation and is strictly below max_function_calls; at return on the
   ceiling path it is at least max_function_calls and less than max_function_calls
   plus the number of requests of the last turn. *)
C25_Original ==
    /\ C25_AtRequest
    /\ C25_Requests
    /\ CeilingStop =>
          /\ call_count >= max_function_calls
          /\ call_count < max_function_calls + LastTurnSize(conversation)

(* C25 as amended: at every completion request issued inside the loop the call
   counter equals the length of function_calls and the number of tool messages in
   the conversation and is strictly below max_function_calls.  At return on the
   ceiling path the counter still equals both and is at least max_function_calls;
   after at least one tool turn it is less than max_function_calls plus the number
   of requests of the last turn, and without any turn, which is the case of a
   ceiling of zero or less, it is 0. *)
C25_CounterInvariant ==
    /\ [](/\ C25_AtRequest
          /\ C25_Requests
          /\ CeilingStop =>
                /\ call_count = Len(function_calls)
                /\ call_count = Len(ToolMessagesOf(conversation))
                /\ call_count >= max_function_calls
                /\ ToolTurns(conversation) # {} =>
                      call_count < max_function_calls + LastTurnSize(conversation)
                /\ ToolTurns(conversation) = {} =>
                      call_count = 0 /\ max_function_calls <= 0)
    /\ [][C25_Step]_vars

\* a ceiling of two overshot by a turn of two after a turn of one: the counter is
\* three, below the ceiling plus two
C25_Witness ==
    /\ CeilingStop
    /\ max_function_calls = 2
    /\ call_count = 3
    /\ Len(function_calls) = 3
    /\ LastTurnSize(conversation) = 2
    /\ Cardinality(LoopRequests) = 2
-----------------------------------------------------------------------------
(* C27: with max_function_calls <= 0 a run issues no request with tool definitions
   and dispatches no tool: it issues exactly one completion request, without tools,
   on the conversation holding only the user query, and returns that reply as
   final_response with function_calls empty and max_calls_reached = True. *)
C27_ZeroCeiling ==
    max_function_calls <= 0 =>
        /\ LoopRequests = {}
        /\ \A j \in 1..Len(requests) : ~CarriesTools(requests[j])
        /\ pc # "dispatch"
        /\ function_calls = <<>>
        /\ call_count = 0
        /\ Len(requests) <= 1
        /\ Terminal =>
              /\ Len(requests) = 1
              /\ requests[1] = [site |-> "final", params |-> FinalParams(<<UserMessage>>)]
        /\ pc = "raised" => error = "APIError"
        /\ pc = "returned" =>
              /\ result.final_response = message.content
              /\ result.function_calls = <<>>
              /\ result.max_calls_reached = TRUE
              /\ result.conversation = <<UserMessage, FinalMessage(message)>>
              /\ DOMAIN result =
                    {"conversation", "function_calls", "max_calls_reached", "final_response"}

\* a service with a ceiling of zero, with tools on offer, answers with the text of
\* its only request
C27_Witness ==
    /\ max_function_calls = 0
    /\ tools # <<>>
    /\ pc = "returned"
    /\ Len(requests) = 1
    /\ result.final_response = "It is rainy in London."
    /\ result.max_calls_reached = TRUE

\* the same with a negative ceiling
C27_WitnessNegative ==
    /\ max_function_calls < 0
    /\ pc = "returned"
    /\ Len(requests) = 1
    /\ result.function_calls = <<>>
    /\ result.max_calls_reached = TRUE
-----------------------------------------------------------------------------
(* C28 as stated: in every result returned, on the natural-stop path and on the
   ceiling path, the last message of the returned conversation is the model's last
   reply, it carries no tool_calls field, and final_response equals the content
   stored in that last message, for every reply text including an absent or empty
   one. *)
C28_Original ==
    pc = "returned" =>
        LET last == Last(result.conversation)
        IN  /\ last.role = message.role
            /\ "tool_calls" \notin DOMAIN last
            /\ result.final_response = last.content

(* C28 as amended: in every result returned the last message of the returned
   conversation is the model's last reply and carries no tool_calls field, and
   final_response is the content of that reply as received.  On the ceiling path
   the last message stores that same content, absent or not.  On the natural-stop
   path it stores the content with an absent one replaced by the empty string, so
   final_response equals the stored content except for a reply without content,
   where final_response is None and the stored content is "". *)
C28_LastMessage ==
    pc = "returned" =>
        LET last == Last(result.conversation)
        IN  /\ result.conversation = conversation
            /\ NaturalStop => message.tool_calls = <<>>
            /\ last.role = message.role
            /\ DOMAIN last = {"role", "content"}
            /\ result.final_response = message.content
            /\ CeilingStop => last.content = message.content
            /\ NaturalStop => last.content = OrEmpty(message.content)
            /\ (NaturalStop /\ message.content = None) =>
                  result.final_response = None /\ last.content = ""
            /\ message.content # None => result.final_response = last.content

\* a natural stop on a reply without content: None is returned, "" is stored
C28_Witness ==
    /\ NaturalStop
    /\ message.content = None
    /\ result.final_response = None
    /\ Last(result.conversation).content = ""

\* a ceiling stop on a reply without content: None is returned and stored
C28_WitnessCeiling ==
    /\ CeilingStop
    /\ function_calls # <<>>
    /\ result.final_response = None
    /\ Last(result.conversation).content = None
-----------------------------------------------------------------------------
\* the requests handed to execute_tool so far: those answered, and the one that raised
Dispatched ==
    SubSeq(RequestedCalls(conversation), 1,
           Len(function_calls) + (IF DispatchRaised THEN 1 ELSE 0))

RECURSIVE ExpectedInvocations(_)
\* one handler call, with the parsed arguments, for each request that parses and
\* names a registered tool
ExpectedInvocations(calls) ==
    IF calls = <<>> THEN <<>>
    ELSE (IF Parses(calls[1]) /\ ~Unregistered(calls[1])
          THEN <<Invocation(calls[1].function.name,
                            JsonLoads(calls[1].function.arguments).value)>>
          ELSE <<>>)
         \o ExpectedInvocations(Tail(calls))

(* C29: a registered handler is invoked exactly once for each dispatched request
   that names it, with the parsed arguments, and only after the argument payload
   has parsed; no handler is invoked for a request naming an unregistered tool or
   for a request whose arguments fail to parse; parsing precedes the registry
   lookup, so a request with an unregistered name and malformed arguments takes the
   parse-failure path. *)
C29_HandlerInvocations ==
    /\ invocations = ExpectedInvocations(Dispatched)
    /\ \A k \in 1..Len(invocations) : invocations[k].function_name \in FUNCTION_REGISTRY
    /\ \A k \in 1..Len(Dispatched) :
          ~Parses(Dispatched[k]) =>
              /\ k = Len(Dispatched)
              /\ DispatchRaised
              /\ error = "JSONDecodeError"
    /\ \A k \in 1..Len(function_calls) :
          /\ Parses(Dispatched[k])
          /\ function_calls[k].function_args = JsonLoads(Dispatched[k].function.arguments).value
          /\ Unregistered(Dispatched[k]) =>
                function_calls[k].function_response
                    = NotImplementedResponse(Dispatched[k].function.name)

\* after one call of the weather handler, a request with an unregistered name and
\* a truncated payload ends the run with the parse failure; no other handler ran
C29_Witness ==
    /\ DispatchRaised
    /\ error = "JSONDecodeError"
    /\ Unregistered(FailedCall)
    /\ ~Parses(FailedCall)
    /\ Len(Dispatched) = 2
    /\ invocations = <<Invocation("get_weather", JsonLoads(ArgsLondon).value)>>
-----------------------------------------------------------------------------
RECURSIVE JsonNative(_)
\* a Python value that JSON represents as it is: no tuple anywhere in it
JsonNative(x) ==
    CASE x.kind = "tuple" -> FALSE
      [] x.kind = "list"  -> \A i \in 1..Len(x.v) : JsonNative(x.v[i])
      [] x.kind = "dict"  -> \A i \in 1..Len(x.v) : JsonNative(x.v[i][2])
      [] OTHER            -> TRUE

InstanceJsonNative(instance) ==
    \A i \in 1..Len(instance.items) : JsonNative(instance.items[i].metadata)

\* the instance with every tuple of its metadata turned into a list
AsParsed(instance) ==
    [instance EXCEPT !.items =
        [i \in 1..Len(instance.items) |->
            [instance.items[i] EXCEPT !.metadata = PythonToJson(@)]]]

\* the reply is the serialization of the instance, its members in either order
ReplyIsDumpOf(instance) ==
    /\ ~Reply.is_none
    /\ \/ Reply.text = model_dump_json(instance)
       \/ Reply.text = Encode(ReverseMembers(model_dump(instance)))

(* C21 as stated: for every valid instance of the target schema, serializing the
   instance to JSON, parsing that JSON and passing the parsed document through the
   validation step yields an instance equal to the original, regardless of field
   order. *)
C21_Original ==
    (Answered /\ IsTypedSchema(output_schema)) =>
        \A instance \in Instances :
            ReplyIsDumpOf(instance) => at = "returned" /\ finished.value = instance

(* C21 as amended: for every valid instance of the target schema, serializing the
   instance to JSON, parsing that JSON and passing the parsed document through the
   validation step yields a valid instance, regardless of field order; it equals
   the original when the metadata of every item is None or holds only values that
   JSON represents as they are, and otherwise differs from it in the metadata
   only, where a value such as a tuple has come back as a list. *)
C21_RoundTrip ==
    (Answered /\ IsTypedSchema(output_schema)) =>
        \A instance \in Instances :
            ReplyIsDumpOf(instance) =>
                /\ at = "returned"
                /\ finished.value = AsParsed(instance)
                /\ InstanceJsonNative(instance) <=> finished.value = instance

\* an instance with tags and a metadata dict, serialized with its members in the
\* opposite order, has come back equal
C21_Witness ==
    /\ Answered
    /\ IsTypedSchema(output_schema)
    /\ at = "returned"
    /\ \E instance \in Instances :
          /\ Len(instance.items) = 1
          /\ instance.items[1].tags = <<"rain">>
          /\ instance.items[1].metadata # NullValue
          /\ Reply.text = Encode(ReverseMembers(model_dump(instance)))
          /\ Reply.text # model_dump_json(instance)
          /\ finished.value = instance

\* an instance whose metadata holds a tuple has come back with a list in its place
C21_WitnessTuple ==
    /\ Answered
    /\ IsTypedSchema(output_schema)
    /\ at = "returned"
    /\ \E instance \in Instances :
          /\ ~InstanceJsonNative(instance)
          /\ Reply.text = model_dump_json(instance)
          /\ finished.value # instance
          /\ finished.value = AsParsed(instance)
-----------------------------------------------------------------------------
(* C30 *)

\* a call of llm_call_with_retry that came back with a response holding a text
StepSucceeded(call) ==
    /\ call.response.status = "returned"
    /\ ~call.response.value.is_none

\* C30: multi_step_workflow never raises: it issues its second model call only after
\* the first has succeeded, and it returns either the dict with exactly the keys
\* intent_analysis and final_answer, holding the stripped texts of the two responses,
\* when both calls succeeded, or the dict holding only the key error when either
\* failed; the intent gathered before a failure of the second call is not returned
C30_NoPartialSuccess ==
    entry = "multi_step_workflow" =>
        /\ at \in {"idle", "analysed", "returned"}
        /\ Len(wire) <= 2
        /\ Len(wire) = 2 => StepSucceeded(wire[1])
        /\ at = "analysed" => Len(wire) = 1
        /\ at = "returned" =>
              /\ finished.status = "returned"
              /\ IF Len(wire) = 2 /\ StepSucceeded(wire[2])
                 THEN finished.value =
                          << <<"intent_analysis", Strip(wire[1].response.value.text)>>,
                             <<"final_answer", Strip(wire[2].response.value.text)>> >>
                 ELSE /\ Keys(finished.value) = {"error"}
                      /\ Len(finished.value) = 1
                      /\ ~StepSucceeded(wire[Len(wire)])

\* the second call fails after the first has stored the intent: only the error returns
C30_Witness ==
    /\ entry = "multi_step_workflow"
    /\ at = "returned"
    /\ Len(wire) = 2
    /\ wire[2].response.status = "raised"
    /\ HasKey(results, "intent_analysis")
    /\ Keys(finished.value) = {"error"}

\* both calls succeed, the second answered within white space
C30_WitnessSuccess ==
    /\ entry = "multi_step_workflow"
    /\ at = "returned"
    /\ Len(wire) = 2
    /\ StepSucceeded(wire[2])
    /\ wire[2].response.value.text # Strip(wire[2].response.value.text)
    /\ Keys(finished.value) = {"intent_analysis", "final_answer"}
-----------------------------------------------------------------------------
(* C26 *)

\* the legacy function has been run on the replies of the finished process_query
LegacyRan == legacy.pc # "idle"

\* the legacy call issued the requests of process_query and ended as it did
SameRun ==
    /\ legacy.requests = requests
    /\ legacy.unread = <<>>
    /\ legacy.pc = pc
    /\ legacy.conversation = conversation
    /\ legacy.function_calls = function_calls
    /\ legacy.result = result
    /\ legacy.error = error

\* C26: given the query, the non-empty tool list, the registry, the ceiling, the
\* generation parameters and the model replies of a process_query run, the legacy
\* call_azure_openai_with_tools issues the same sequence of completion requests, with
\* the same messages and tool parameters, reads every reply, and ends the same way:
\* the same returned dict, or the same failure with the same conversation and records
C26_LegacyEquivalent == (LegacyRan /\ tools # <<>>) => SameRun

\* a run with a dispatched turn that ended at the ceiling, repeated by the legacy call
C26_Witness ==
    /\ LegacyRan
    /\ tools # <<>>
    /\ pc = "returned"
    /\ legacy.result.function_calls # <<>>
    /\ "max_calls_reached" \in DOMAIN legacy.result
    /\ Len(legacy.requests) >= 2

\* a run that failed in the dispatch, repeated by the legacy call
C26_WitnessFailure ==
    /\ LegacyRan
    /\ tools # <<>>
    /\ pc = "raised"
    /\ legacy.error \in {"JSONDecodeError", "TypeError"}
    /\ legacy.function_calls # <<>>

\* with an empty tool list the two differ in the requests of the loop
C26_WitnessEmpty ==
    /\ LegacyRan
    /\ tools = <<>>
    /\ legacy.requests # requests
    /\ legacy.result = result
-----------------------------------------------------------------------------
(* C22 *)

\* the invocation run alone: its steps taken one after the other, each request
\* answered by the next of the given replies
RECURSIVE Alone(_, _, _)
Alone(local, shared, unread) ==
    IF local.pc = "idle" THEN Alone(StartStep(local, shared).local, shared, unread)
    ELSE IF local.pc = "dispatch" THEN Alone(DispatchStep(local, shared).local, shared, unread)
    ELSE IF local.pc = "loop" /\ unread # <<>>
    THEN Alone(RequestStep(local, shared, Head(unread)).local, shared, Tail(unread))
    ELSE local

RunAlone(r) ==
    Alone(NewRun(runs[r].self, runs[r].parallel_tool_calls), Services, runs[r].replies)

\* between two turns and at its end an invocation stands exactly where it would stand
\* had it run alone on the replies it has received
C22_State ==
    \A r \in RunIds :
        runs[r].pc \in {"loop", "returned", "raised"} => runs[r] = RunAlone(r)

\* a step of an invocation changes nothing but the frame of that invocation
C22_Step ==
    /\ services' = services
    /\ \A r, other \in RunIds :
          (runs'[r] # runs[r] /\ other # r) => runs'[other] = runs[other]

\* C22: concurrent invocations of process_query, on the same service or on different
\* ones, do not interfere: under every interleaving of their steps each invocation
\* returns the conversation, function_calls and final_response it would return when
\* run alone on the same replies, and no step writes anything but the conversation,
\* record list and counter of its own invocation
C22_NoInterference == []C22_State /\ [][C22_Step]_vars

\* two invocations on one service have both dispatched a turn and returned, one at
\* the ceiling and one at a natural stop
C22_Witness ==
    \E r, other \in RunIds :
        /\ r # other
        /\ runs[r].self = runs[other].self
        /\ runs[r].pc = "returned"
        /\ runs[other].pc = "returned"
        /\ runs[r].function_calls # <<>>
        /\ runs[other].function_calls # <<>>
        /\ "max_calls_reached" \in DOMAIN runs[r].result
        /\ "max_calls_reached" \notin DOMAIN runs[other].result

\* two invocations on different services, one ended by a failure
C22_WitnessDifferent ==
    \E r, other \in RunIds :
        /\ runs[r].self # runs[other].self
        /\ runs[r].pc = "raised"
        /\ runs[other].pc = "returned"
        /\ runs[other].function_calls # <<>>
====
